---- MODULE Spec2Model ----
(***************************************************************************)
(* A model of the CI/CD automation scripts of cyan-actions:                *)
(*                                                                         *)
(*   - the account resolver, .github/actions/account-mapping/              *)
(*     map_accounts.py (specification Spec);                               *)
(*   - the report dispatcher, .github/actions/generate-report/scripts/     *)
(*     generate_report.py, with the PDF and HTML generators it drives      *)
(*     (specification SpecReport).                                         *)
(*                                                                         *)
(* A Python str the code takes apart (CHANGED_FILES, a file name) is a     *)
(* sequence of one-character strings, so that strip, split and replace     *)
(* are modelled by what they do.  A str the code only compares, looks up   *)
(* or prints (ENVIRONMENT, an account number) is a TLA+ string.            *)
(***************************************************************************)
EXTENDS Integers, Sequences, FiniteSets, TLC

VARIABLES
    environ,            \* os.environ: variable name -> value (a name not in DOMAIN is unset)
    mappings_yml,       \* the content of mappings.yml beside the script
    invocation,         \* 1: first run of the script, 2: a second run on the same inputs
    first_run,          \* <<>> or <<outcome of the first run>> (what the caller saw of it)
    pc,                 \* position of main()
    changed_files,      \* main: local changed_files
    environment,        \* main: local environment
    account_mappings,   \* main: local account_mappings
    directories,        \* main: local directories (a Python set)
    account_types,      \* main: local account_types (a list)
    account_numbers,    \* main: local account_numbers (a list)
    stdout,             \* lines printed on standard output
    stderr,             \* lines printed on standard error
    exit_code,          \* process exit code, -1 while the process runs
    entry,              \* the report script that was started
    data,               \* generate_report.main: local data (REPORT_DATA)
    output_filename,    \* generate_report.main: local output_filename
    data_type,          \* generate_report.main: local data_type
    report_data,        \* PDFGenerator.report_data: the parsed JSON value
    generator,          \* the class of the generator constructed, "" before
    self_output_filename, \* generator.output_filename
    doc,                \* PDFGenerator.generate: local doc ("" / "created" / "built")
    story,              \* PDFGenerator.generate: local story
    temp_md_path,       \* _generate_html_with_grip: local temp_md_path, <<>> for None
    raised,             \* the exception that is propagating, "" when none
    message,            \* str(e) of that exception
    grip_available,     \* whether the grip command answers --version
    filename,           \* what generate() returned, <<>> before
    files,              \* the files written to the working directory
    temp_files,         \* the temporary files that exist
    grip_exports,       \* the --export paths of the grip commands that were run
    cleanup_calls       \* the paths cleanup_temp_file was called with

\* The state of the account resolver alone, and of the report scripts alone.
resolverVars == <<mappings_yml, invocation, first_run, changed_files,
                  environment, account_mappings, directories, account_types,
                  account_numbers>>

reportVars == <<entry, data, output_filename, data_type, report_data, generator,
                self_output_filename, doc, story, temp_md_path, raised,
                message, grip_available, filename, files, temp_files, grip_exports,
                cleanup_calls>>

vars == <<environ, pc, stdout, stderr, exit_code, resolverVars, reportVars>>

(***************************************************************************)
(* Bounds of the model.                                                    *)
(***************************************************************************)
\* CHANGED_FILES holds at most MaxPaths paths.
MaxPaths == 3

(***************************************************************************)
(* Python built-ins used by the scripts.                                   *)
(***************************************************************************)
\* The whitespace characters str.strip() and str.split() act on that the
\* inputs of the model are made of.
WHITESPACE == {" ", "\n"}

RECURSIVE lstrip(_)
lstrip(s) ==
    IF s # <<>> /\ Head(s) \in WHITESPACE THEN lstrip(Tail(s)) ELSE s

RECURSIVE rstrip(_)
rstrip(s) ==
    IF s # <<>> /\ s[Len(s)] \in WHITESPACE
    THEN rstrip(SubSeq(s, 1, Len(s) - 1))
    ELSE s

\* str.strip()
strip(s) == rstrip(lstrip(s))

\* str.split() with no separator: the maximal runs of non-whitespace
\* characters, in order; no empty string is ever produced.
RECURSIVE split_scan(_, _, _)
split_scan(s, cur, acc) ==
    IF s = <<>>
    THEN IF cur = <<>> THEN acc ELSE Append(acc, cur)
    ELSE IF Head(s) \in WHITESPACE
         THEN split_scan(Tail(s), <<>>, IF cur = <<>> THEN acc ELSE Append(acc, cur))
         ELSE split_scan(Tail(s), Append(cur, Head(s)), acc)

split(s) == split_scan(s, <<>>, <<>>)

\* str.split(sep) for a one-character separator: the fields between the
\* separators, empty fields kept; a string without sep is its only field.
RECURSIVE split_sep_scan(_, _, _, _)
split_sep_scan(s, sep, cur, acc) ==
    IF s = <<>>
    THEN Append(acc, cur)
    ELSE IF Head(s) = sep
         THEN split_sep_scan(Tail(s), sep, <<>>, Append(acc, cur))
         ELSE split_sep_scan(Tail(s), sep, Append(cur, Head(s)), acc)

split_sep(s, sep) == split_sep_scan(s, sep, <<>>, <<>>)

\* sep.join(list) on TLA+ strings.
RECURSIVE join(_, _)
join(sep, list) ==
    IF list = <<>> THEN ""
    ELSE IF Len(list) = 1 THEN list[1]
    ELSE list[1] \o sep \o join(sep, Tail(list))

\* os.environ.get(key, default)
environ_get(key, default) ==
    IF key \in DOMAIN environ THEN environ[key] ELSE default

\* The orders in which a for loop can visit a Python set.  The elements are
\* str, whose hashes are randomised per process, so the order of a set of
\* two or more strings differs from run to run.
IterationOrders(S) ==
    {o \in [1..Cardinality(S) -> S] : \A i, j \in 1..Cardinality(S) : o[i] = o[j] => i = j}

(***************************************************************************)
(* The account resolver: map_accounts.py.                                  *)
(***************************************************************************)
SRC == <<"s", "r", "c">>
TESTS == <<"t", "e", "s", "t", "s">>

\* determine_account_types: the directory_mapping dict.
directory_mapping == (SRC :> SRC) @@ (TESTS :> TESTS)

\* The paths CHANGED_FILES is made of: paths under the recognized
\* directories, a path under another directory, a name without separator
\* and a path that starts with the separator.
Paths ==
    { SRC \o <<"/", "a">>,
      TESTS \o <<"/", "b">>,
      <<"d", "o", "c", "s", "/", "r">>,
      SRC,
      <<"/", "x">> }

\* The whitespace around the paths: what precedes the first path, what
\* separates two paths and what follows the last one.
Layouts ==
    { [lead |-> <<>>,    sep |-> <<" ">>,        trail |-> <<>>],
      [lead |-> <<>>,    sep |-> <<"\n">>,       trail |-> <<>>],
      [lead |-> <<" ">>, sep |-> <<" ", "\n">>,  trail |-> <<"\n">>] }

RECURSIVE Separated(_, _)
Separated(ps, sep) ==
    IF ps = <<>> THEN <<>>
    ELSE IF Len(ps) = 1 THEN ps[1]
    ELSE ps[1] \o sep \o Separated(Tail(ps), sep)

ChangedFilesInputs ==
    { l.lead \o Separated(ps, l.sep) \o l.trail :
        ps \in UNION { [1..n -> Paths] : n \in 0..MaxPaths }, l \in Layouts }

EnvironmentInputs == {"dev", "unknown"}

\* mappings.yml as the tests write it, and one whose dev environment has
\* no tests category.
MAPPINGS_FULL ==
    [ dev  |-> (SRC :> "123456789012") @@ (TESTS :> "987654321098"),
      prod |-> (SRC :> "111111111111") @@ (TESTS :> "222222222222") ]

MAPPINGS_PARTIAL ==
    [ dev  |-> (SRC :> "123456789012"),
      prod |-> (SRC :> "111111111111") @@ (TESTS :> "222222222222") ]

MappingFiles == {MAPPINGS_FULL, MAPPINGS_PARTIAL}

\* The process environments of the resolver: each variable set or unset.
ResolverEnvirons ==
    UNION { { [k \in K |-> IF k = "CHANGED_FILES" THEN cf ELSE env] :
                cf \in ChangedFilesInputs, env \in EnvironmentInputs } :
            K \in SUBSET {"CHANGED_FILES", "ENVIRONMENT"} }

\* load_mappings: yaml.safe_load of mappings.yml.  The file is present and
\* holds a well-formed mapping in every run of the model.
load_mappings == mappings_yml

\* extract_directories(changed_files)
extract_directories_no_sep(cf) ==
    IF cf = <<>>
    THEN {}
    ELSE LET paths == split(strip(cf))
         IN  { split_sep(paths[i], "/")[1] :
                 i \in { j \in 1..Len(paths) :
                           /\ paths[j] # <<>>
                           /\ Len(split_sep(paths[j], "/")) > 0 } }

extract_directories(cf) ==
    IF cf = <<>>
    THEN {}
    ELSE LET paths == split(strip(cf))
         IN  { split_sep(paths[i], "/")[1] :
                 i \in { j \in 1..Len(paths) :
                           /\ paths[j] # <<>>
                           /\ Len(split_sep(paths[j], "/")) > 1 } }

\* determine_account_types(directories), for the order in which the loop
\* visits the set.
RECURSIVE determine_account_types(_)
determine_account_types(order) ==
    IF order = <<>>
    THEN <<>>
    ELSE (IF Head(order) \in DOMAIN directory_mapping
          THEN <<directory_mapping[Head(order)]>>
          ELSE <<>>) \o determine_account_types(Tail(order))

\* A line print(f"{key}={value}") writes.
KeyValue(key, val) == <<key, val>>

\* The debug lines load_mappings prints on standard error.
LoadMappingsDebug ==
    << "Current working directory", "Script directory",
       "Mappings file path", "Mappings file exists" >>

\* No report script runs beside the resolver.
ReportIdle ==
    /\ entry = ""
    /\ data = <<>>
    /\ output_filename = <<>>
    /\ data_type = ""
    /\ report_data = [type |-> "NoneType"]
    /\ generator = ""
    /\ self_output_filename = <<>>
    /\ doc = ""
    /\ story = <<>>
    /\ temp_md_path = <<>>
    /\ raised = ""
    /\ message = ""
    /\ grip_available = FALSE
    /\ filename = <<>>
    /\ files = {}
    /\ temp_files = {}
    /\ grip_exports = <<>>
    /\ cleanup_calls = <<>>

Init ==
    /\ environ \in ResolverEnvirons
    /\ mappings_yml \in MappingFiles
    /\ invocation = 1
    /\ first_run = <<>>
    /\ pc = "main"
    /\ changed_files = <<>>
    /\ environment = ""
    /\ account_mappings = <<>>
    /\ directories = {}
    /\ account_types = <<>>
    /\ account_numbers = <<>>
    /\ stdout = <<>>
    /\ stderr = <<>>
    /\ exit_code = -1
    /\ ReportIdle

\* main, lines 75-79: read the inputs and load the mappings.
main_inputs ==
    /\ pc = "main"
    /\ changed_files' = environ_get("CHANGED_FILES", <<>>)
    /\ environment' = environ_get("ENVIRONMENT", "")
    /\ account_mappings' = load_mappings
    /\ stderr' = stderr \o LoadMappingsDebug
    /\ pc' = "extract_directories"
    /\ UNCHANGED <<environ, mappings_yml, invocation, first_run, directories,
                   account_types, account_numbers, stdout, exit_code>>
    /\ UNCHANGED reportVars

\* main, line 82.
main_extract_directories ==
    /\ pc = "extract_directories"
    /\ directories' = extract_directories(changed_files)
    /\ pc' = "determine_account_types"
    /\ UNCHANGED <<environ, mappings_yml, invocation, first_run, changed_files,
                   environment, account_mappings, account_types,
                   account_numbers, stdout, stderr, exit_code>>
    /\ UNCHANGED reportVars

\* main, line 85: the loop of determine_account_types visits the set in one
\* of its iteration orders.
main_determine_account_types ==
    /\ pc = "determine_account_types"
    /\ \E order \in IterationOrders(directories) :
           account_types' = determine_account_types(order)
    /\ pc' = "resolve"
    /\ UNCHANGED <<environ, mappings_yml, invocation, first_run, changed_files,
                   environment, account_mappings, directories,
                   account_numbers, stdout, stderr, exit_code>>
    /\ UNCHANGED reportVars

\* main, lines 87-97: no recognized directory; print the sentinel and return.
main_no_mapping_true ==
    /\ pc = "resolve"
    /\ account_types = <<>>
    /\ stderr' = stderr \o << "No matching directory found in changed files.",
                              "Skipping workflow - no account mapping available" >>
    /\ stdout' = stdout \o << KeyValue("account_number", "SKIP"),
                              KeyValue("mapping_found", "true") >>
    /\ exit_code' = 0
    /\ pc' = "exited"
    /\ UNCHANGED <<environ, mappings_yml, invocation, first_run, changed_files,
                   environment, account_mappings, directories, account_types,
                   account_numbers>>
    /\ UNCHANGED reportVars

main_no_mapping ==
    /\ pc = "resolve"
    /\ account_types = <<>>
    /\ stderr' = stderr \o << "No matching directory found in changed files.",
                              "Skipping workflow - no account mapping available" >>
    /\ stdout' = stdout \o << KeyValue("account_number", "SKIP"),
                              KeyValue("mapping_found", "false") >>
    /\ exit_code' = 0
    /\ pc' = "exited"
    /\ UNCHANGED <<environ, mappings_yml, invocation, first_run, changed_files,
                   environment, account_mappings, directories, account_types,
                   account_numbers>>
    /\ UNCHANGED reportVars

\* main, lines 100-102: the environment is looked up once a recognized
\* directory was found.
main_unknown_environment_first ==
    /\ pc = "resolve"
    /\ environment \notin DOMAIN account_mappings
    /\ stderr' = Append(stderr, "Error: Unknown environment")
    /\ exit_code' = 1
    /\ pc' = "exited"
    /\ UNCHANGED <<environ, mappings_yml, invocation, first_run, changed_files,
                   environment, account_mappings, directories, account_types,
                   account_numbers, stdout>>
    /\ UNCHANGED reportVars

main_unknown_environment ==
    /\ pc = "resolve"
    /\ account_types # <<>>
    /\ environment \notin DOMAIN account_mappings
    /\ stderr' = Append(stderr, "Error: Unknown environment")
    /\ exit_code' = 1
    /\ pc' = "exited"
    /\ UNCHANGED <<environ, mappings_yml, invocation, first_run, changed_files,
                   environment, account_mappings, directories, account_types,
                   account_numbers, stdout>>
    /\ UNCHANGED reportVars

\* main, lines 105-113: one iteration of the lookup loop.  account_type is
\* the next element of account_types; a category the environment lacks
\* ends the process.
main_unknown_account_type_skipped ==
    /\ pc = "resolve"
    /\ account_types # <<>>
    /\ environment \in DOMAIN account_mappings
    /\ Len(account_numbers) < Len(account_types)
    /\ LET account_type == account_types[Len(account_numbers) + 1]
       IN  /\ account_type \notin DOMAIN account_mappings[environment]
           /\ stderr' = Append(stderr, "Error: Unknown account type")
           /\ account_numbers' = Append(account_numbers, "")
    /\ UNCHANGED <<environ, mappings_yml, invocation, first_run, pc, changed_files,
                   environment, account_mappings, directories, account_types,
                   stdout, exit_code>>
    /\ UNCHANGED reportVars

main_unknown_account_type ==
    /\ pc = "resolve"
    /\ account_types # <<>>
    /\ environment \in DOMAIN account_mappings
    /\ Len(account_numbers) < Len(account_types)
    /\ LET account_type == account_types[Len(account_numbers) + 1]
       IN  /\ account_type \notin DOMAIN account_mappings[environment]
           /\ stderr' = Append(stderr, "Error: Unknown account type")
           /\ exit_code' = 1
           /\ pc' = "exited"
    /\ UNCHANGED <<environ, mappings_yml, invocation, first_run, changed_files,
                   environment, account_mappings, directories, account_types,
                   account_numbers, stdout>>
    /\ UNCHANGED reportVars

main_lookup ==
    /\ pc = "resolve"
    /\ account_types # <<>>
    /\ environment \in DOMAIN account_mappings
    /\ Len(account_numbers) < Len(account_types)
    /\ LET account_type == account_types[Len(account_numbers) + 1]
       IN  /\ account_type \in DOMAIN account_mappings[environment]
           /\ account_numbers' =
                  Append(account_numbers, account_mappings[environment][account_type])
    /\ UNCHANGED <<environ, mappings_yml, invocation, first_run, pc, changed_files,
                   environment, account_mappings, directories, account_types,
                   stdout, stderr, exit_code>>
    /\ UNCHANGED reportVars

\* main, lines 116-126: join the numbers, print the result and return.
main_output ==
    /\ pc = "resolve"
    /\ account_types # <<>>
    /\ environment \in DOMAIN account_mappings
    /\ Len(account_numbers) = Len(account_types)
    /\ stdout' = stdout \o << KeyValue("account_number", join(",", account_numbers)),
                              KeyValue("mapping_found", "true") >>
    /\ stderr' = stderr \o << "Environment", "Changed files", "Directories found",
                              "Account types", "Account numbers",
                              "Final account number" >>
    /\ exit_code' = 0
    /\ pc' = "exited"
    /\ UNCHANGED <<environ, mappings_yml, invocation, first_run, changed_files,
                   environment, account_mappings, directories, account_types,
                   account_numbers>>
    /\ UNCHANGED reportVars

\* The script is run again on the same CHANGED_FILES, ENVIRONMENT and
\* mappings.yml: a fresh process, which keeps nothing of the first one.
\* first_run records what the first process printed and how it ended.
Reinvoke ==
    /\ pc = "exited"
    /\ invocation = 1
    /\ invocation' = 2
    /\ first_run' = << [stdout |-> stdout, exit_code |-> exit_code] >>
    /\ pc' = "main"
    /\ changed_files' = <<>>
    /\ environment' = ""
    /\ account_mappings' = <<>>
    /\ directories' = {}
    /\ account_types' = <<>>
    /\ account_numbers' = <<>>
    /\ stdout' = <<>>
    /\ stderr' = <<>>
    /\ exit_code' = -1
    /\ UNCHANGED <<environ, mappings_yml>>
    /\ UNCHANGED reportVars
    /\ UNCHANGED reportVars

Next ==
    \/ main_inputs
    \/ main_extract_directories
    \/ main_determine_account_types
    \/ main_no_mapping
    \/ main_unknown_environment
    \/ main_unknown_account_type
    \/ main_lookup
    \/ main_output
    \/ Reinvoke

Spec == Init /\ [][Next]_vars

(***************************************************************************)
(* What the claims about the account resolver speak of, stated on the      *)
(* inputs of the run and not through the operators that model the code.    *)
(***************************************************************************)
\* The CHANGED_FILES and ENVIRONMENT the process was started with.
ChangedFilesInput == environ_get("CHANGED_FILES", <<>>)
EnvironmentInput == environ_get("ENVIRONMENT", "")

\* A string that is empty or made of whitespace only.
IsBlank(s) == \A i \in 1..Len(s) : s[i] \in WHITESPACE

\* The whitespace-separated tokens of s, as <<first, last>> positions: the
\* maximal runs of characters that are not whitespace.
TokenSpans(s) ==
    { sp \in (1..Len(s)) \X (1..Len(s)) :
        /\ sp[1] <= sp[2]
        /\ \A k \in sp[1]..sp[2] : s[k] \notin WHITESPACE
        /\ sp[1] = 1 \/ s[sp[1] - 1] \in WHITESPACE
        /\ sp[2] = Len(s) \/ s[sp[2] + 1] \in WHITESPACE }

HasSeparator(s, sp) == \E k \in sp[1]..sp[2] : s[k] = "/"

\* The text of a token before its first separator.
FirstSegment(s, sp) ==
    LET k == CHOOSE k \in sp[1]..sp[2] :
                 s[k] = "/" /\ \A m \in sp[1]..(k - 1) : s[m] # "/"
    IN  SubSeq(s, sp[1], k - 1)

PathSpans(s) == { sp \in TokenSpans(s) : HasSeparator(s, sp) }

TopLevelDirectories(s) == { FirstSegment(s, sp) : sp \in PathSpans(s) }

\* The recognized directories among the changed paths, and the order in
\* which CHANGED_FILES first names them.
Recognized(s) == TopLevelDirectories(s) \cap {SRC, TESTS}

FirstPosition(s, d) ==
    LET starts == { sp[1] : sp \in { t \in PathSpans(s) : FirstSegment(s, t) = d } }
    IN  CHOOSE i \in starts : \A j \in starts : i <= j

FirstEncountered(s) ==
    CHOOSE o \in IterationOrders(Recognized(s)) :
        \A i, j \in 1..Len(o) :
            i < j => FirstPosition(s, o[i]) < FirstPosition(s, o[j])

\* The mapping has the environment and every recognized category of s.
MappingCovers(s) ==
    /\ EnvironmentInput \in DOMAIN mappings_yml
    /\ Recognized(s) \subseteq DOMAIN mappings_yml[EnvironmentInput]

Lines(out, key) == { i \in 1..Len(out) : out[i][1] = key }

SKIP_LINES ==
    << <<"account_number", "SKIP">>, <<"mapping_found", "false">> >>

(***************************************************************************)
(* C1.  When CHANGED_FILES names a recognized directory and the mapping    *)
(* has the environment and the categories, main prints account_number as  *)
(* the comma-joined account numbers of the distinct recognized            *)
(* directories, in the order CHANGED_FILES first names them.               *)
(***************************************************************************)
C1_FirstEncounteredOrder ==
    ( /\ pc = "exited"
      /\ Recognized(ChangedFilesInput) # {}
      /\ MappingCovers(ChangedFilesInput) )
    => LET o == FirstEncountered(ChangedFilesInput)
           numbers == [i \in 1..Len(o) |-> mappings_yml[EnvironmentInput][o[i]]]
       IN  /\ exit_code = 0
           /\ Len(account_numbers) = Cardinality(Recognized(ChangedFilesInput))
           /\ Len(stdout) >= 1
           /\ stdout[1] = <<"account_number", join(",", numbers)>>

C3_NoMatchExitsOne ==
    (pc = "exited" /\ Recognized(ChangedFilesInput) = {})
    => /\ exit_code = 1
       /\ \E i \in 1..Len(stderr) :
              stderr[i] = "No matching directory found in changed files."

(***************************************************************************)
(* C4.  With a recognized directory among the changed paths and an         *)
(* ENVIRONMENT absent from the mapping, or a recognized category absent    *)
(* under it, main prints no account_number and no mapping_found line,     *)
(* and ends with a non-zero exit code and the error on standard error.     *)
(***************************************************************************)
C4_ConfigurationErrorIsFatal ==
    ( /\ Recognized(ChangedFilesInput) # {}
      /\ ~ MappingCovers(ChangedFilesInput) )
    => /\ Lines(stdout, "account_number") = {}
       /\ Lines(stdout, "mapping_found") = {}
       /\ pc = "exited"
          => /\ exit_code >= 1
             /\ stderr[Len(stderr)] \in
                    {"Error: Unknown environment", "Error: Unknown account type"}

\* The run ended on a missing category after an earlier one was resolved.
C4_Witness ==
    /\ pc = "exited"
    /\ exit_code = 1
    /\ account_numbers # <<>>
    /\ EnvironmentInput \in DOMAIN mappings_yml
    /\ ~ MappingCovers(ChangedFilesInput)

(***************************************************************************)
(* C5.  Two runs on the same CHANGED_FILES, ENVIRONMENT and mapping file   *)
(* print the same lines on standard output and end with the same exit      *)
(* code.                                                                   *)
(***************************************************************************)
C5_SameInputsSameOutcome ==
    (pc = "exited" /\ invocation = 2)
    => /\ stdout = first_run[1].stdout
       /\ exit_code = first_run[1].exit_code

(***************************************************************************)
(* C6.  extract_directories returns exactly the set of the first path      *)
(* segments of the whitespace-separated tokens that hold a separator.      *)
(***************************************************************************)
C6_ExtractDirectories ==
    (pc \notin {"main", "extract_directories"})
    => directories = TopLevelDirectories(ChangedFilesInput)

\* Three paths, two of them under src and one under tests, gave the two
\* directories.
C6_Witness ==
    /\ pc = "determine_account_types"
    /\ directories = {SRC, TESTS}
    /\ Cardinality(PathSpans(ChangedFilesInput)) = 3

(***************************************************************************)
(* C7.  A run that does not end fatally prints exactly two lines, the      *)
(* account_number line and then the mapping_found line; mapping_found is   *)
(* false exactly with the SKIP sentinel and true exactly with a resolved   *)
(* account list.                                                           *)
(***************************************************************************)
C7_TwoResultLines ==
    (pc = "exited" /\ exit_code = 0)
    => /\ Len(stdout) = 2
       /\ stdout[1][1] = "account_number"
       /\ stdout[2][1] = "mapping_found"
       /\ stdout[2][2] \in {"true", "false"}
       /\ stdout[2][2] = "false" <=> stdout[1][2] = "SKIP"
       /\ stdout[2][2] = "true" <=>
              /\ account_numbers # <<>>
              /\ \A i \in 1..Len(account_numbers) :
                     \E d \in Recognized(ChangedFilesInput) :
                         account_numbers[i] = mappings_yml[EnvironmentInput][d]
              /\ stdout[1][2] = join(",", account_numbers)

\* Both kinds of result were printed: here the resolved list of two numbers.
C7_Witness ==
    /\ pc = "exited"
    /\ exit_code = 0
    /\ stdout[2] = <<"mapping_found", "true">>
    /\ Len(account_numbers) = 2

(***************************************************************************)
(* The report scripts: scripts/generate_report.py, src/pdf_generator/run.py *)
(* and src/html_generator/run.py, with src/common/utils.py.                *)
(*                                                                         *)
(* A JSON value is a record with the name of its Python type and its       *)
(* value: a str holds its characters, a list its elements, a dict its      *)
(* <<key, value>> items in insertion order.                                *)
(***************************************************************************)
JStr(s) == [type |-> "str", value |-> s]
JInt(n) == [type |-> "int", value |-> n]
JList(xs) == [type |-> "list", value |-> xs]
JDict(items) == [type |-> "dict", value |-> items]
JNone == [type |-> "NoneType"]

\* isinstance(v, t)
isinstance(v, t) == v.type = t

dict_has(d, k) == \E i \in 1..Len(d.value) : d.value[i][1] = k

\* d.get(k, default)
dict_get(d, k, default) ==
    IF dict_has(d, k)
    THEN d.value[CHOOSE i \in 1..Len(d.value) : d.value[i][1] = k][2]
    ELSE default

dict_keys(d) == { d.value[i][1] : i \in 1..Len(d.value) }

\* str.replace(old, new) for a non-empty old: the occurrences of old are
\* replaced from the left, without overlap; character by character when
\* old and new are one character each.
RECURSIVE replace(_, _, _)
replace(s, old, new) ==
    IF Len(old) = 1 /\ Len(new) = 1
    THEN [i \in 1..Len(s) |-> IF s[i] = old[1] THEN new[1] ELSE s[i]]
    ELSE IF Len(s) < Len(old) THEN s
    ELSE IF SubSeq(s, 1, Len(old)) = old
         THEN new \o replace(SubSeq(s, Len(old) + 1, Len(s)), old, new)
         ELSE <<Head(s)>> \o replace(Tail(s), old, new)

LOWERCASE ==
    << "a", "b", "c", "d", "e", "f", "g", "h", "i", "j", "k", "l", "m",
       "n", "o", "p", "q", "r", "s", "t", "u", "v", "w", "x", "y", "z" >>

UPPERCASE ==
    << "A", "B", "C", "D", "E", "F", "G", "H", "I", "J", "K", "L", "M",
       "N", "O", "P", "Q", "R", "S", "T", "U", "V", "W", "X", "Y", "Z" >>

IsLower(c) == \E i \in 1..Len(LOWERCASE) : LOWERCASE[i] = c
IsUpper(c) == \E i \in 1..Len(UPPERCASE) : UPPERCASE[i] = c

upper(c) ==
    IF IsLower(c)
    THEN UPPERCASE[CHOOSE i \in 1..Len(LOWERCASE) : LOWERCASE[i] = c]
    ELSE c

lower(c) ==
    IF IsUpper(c)
    THEN LOWERCASE[CHOOSE i \in 1..Len(UPPERCASE) : UPPERCASE[i] = c]
    ELSE c

\* str.title(): a letter that follows a letter is lowered, any other letter
\* is raised.
title(s) ==
    [i \in 1..Len(s) |->
        IF i > 1 /\ (IsLower(s[i - 1]) \/ IsUpper(s[i - 1]))
        THEN lower(s[i])
        ELSE upper(s[i])]

\* pdf_generator/utils.py: capitalize_header_text
capitalize_header_text(text) == title(replace(text, <<"_">>, <<" ">>))

\* str(n) for an integer.
DIGITS == << "0", "1", "2", "3", "4", "5", "6", "7", "8", "9" >>

RECURSIVE str_nat(_)
str_nat(n) ==
    IF n < 10 THEN << DIGITS[n + 1] >>
    ELSE str_nat(n \div 10) \o << DIGITS[(n % 10) + 1] >>

\* repr of a str: in single quotes, or in double quotes when the text holds
\* a single quote and no double quote; the quote, the backslash and the
\* newline are escaped.
RECURSIVE repr_chars(_, _)
repr_chars(s, quote) ==
    IF s = <<>> THEN <<>>
    ELSE (IF Head(s) = quote \/ Head(s) = "\\" THEN <<"\\", Head(s)>>
          ELSE IF Head(s) = "\n" THEN <<"\\", "n">>
          ELSE <<Head(s)>>)
         \o repr_chars(Tail(s), quote)

\* repr(value): what str() shows of the elements of a list and of the keys
\* and values of a dict.
RECURSIVE py_repr(_)
RECURSIVE py_repr_items(_, _)
py_repr_items(v, i) ==
    IF i > Len(v.value) THEN <<>>
    ELSE (IF isinstance(v, "dict")
          THEN py_repr(JStr(v.value[i][1])) \o <<":", " ">> \o py_repr(v.value[i][2])
          ELSE py_repr(v.value[i]))
         \o (IF i < Len(v.value) THEN <<",", " ">> ELSE <<>>)
         \o py_repr_items(v, i + 1)

py_repr(v) ==
    IF isinstance(v, "str")
    THEN IF (\E i \in 1..Len(v.value) : v.value[i] = "'")
            /\ ~ (\E i \in 1..Len(v.value) : v.value[i] = "\"")
         THEN <<"\"">> \o repr_chars(v.value, "\"") \o <<"\"">>
         ELSE <<"'">> \o repr_chars(v.value, "'") \o <<"'">>
    ELSE IF isinstance(v, "int")
         THEN IF v.value < 0 THEN <<"-">> \o str_nat(-v.value) ELSE str_nat(v.value)
    ELSE IF isinstance(v, "list") THEN <<"[">> \o py_repr_items(v, 1) \o <<"]">>
    ELSE IF isinstance(v, "dict") THEN <<"{">> \o py_repr_items(v, 1) \o <<"}">>
    ELSE <<"N", "o", "n", "e">>

\* str(value): the text itself for a str, the repr for any other value.
py_str(v) == IF isinstance(v, "str") THEN v.value ELSE py_repr(v)

\* sub in s, for texts.
contains(s, sub) ==
    \E i \in 1..(Len(s) - Len(sub) + 1) : SubSeq(s, i, i + Len(sub) - 1) = sub

\* str.lower()
lower_text(s) == [i \in 1..Len(s) |-> lower(s[i])]

\* The escapes json.dumps writes inside a string.
json_escape(c) ==
    IF c = "\"" THEN <<"\\", "\"">>
    ELSE IF c = "\\" THEN <<"\\", "\\">>
    ELSE IF c = "\n" THEN <<"\\", "n">>
    ELSE <<c>>

RECURSIVE json_string(_)
json_string(s) ==
    IF s = <<>> THEN <<>> ELSE json_escape(Head(s)) \o json_string(Tail(s))

\* The indentation of json.dumps(indent=2) at a nesting level.
json_indent(level) == [i \in 1..(2 * level) |-> " "]

\* json.dumps(value, indent=2): the items of a non-empty list or mapping
\* stand on lines of their own, two spaces deeper than their brackets.
RECURSIVE json_dumps(_, _)
RECURSIVE json_items(_, _, _)
json_items(v, i, level) ==
    IF i > Len(v.value) THEN <<>>
    ELSE json_indent(level)
         \o (IF isinstance(v, "dict")
             THEN <<"\"">> \o json_string(v.value[i][1]) \o <<"\"", ":", " ">>
                  \o json_dumps(v.value[i][2], level)
             ELSE json_dumps(v.value[i], level))
         \o (IF i < Len(v.value) THEN <<",">> ELSE <<>>)
         \o <<"\n">>
         \o json_items(v, i + 1, level)

json_dumps(v, level) ==
    IF isinstance(v, "str") THEN <<"\"">> \o json_string(v.value) \o <<"\"">>
    ELSE IF isinstance(v, "int")
         THEN IF v.value < 0 THEN <<"-">> \o str_nat(-v.value) ELSE str_nat(v.value)
    ELSE IF isinstance(v, "list")
         THEN IF v.value = <<>> THEN <<"[", "]">>
              ELSE <<"[", "\n">> \o json_items(v, 1, level + 1)
                   \o json_indent(level) \o <<"]">>
    ELSE IF isinstance(v, "dict")
         THEN IF v.value = <<>> THEN <<"{", "}">>
              ELSE <<"{", "\n">> \o json_items(v, 1, level + 1)
                   \o json_indent(level) \o <<"}">>
    ELSE <<"n", "u", "l", "l">>

\* The texts datetime.fromisoformat reads among the inputs of the model
\* (after "Z" became "+00:00"), with the text of each instant in US/Eastern
\* under the format "%b %d, %Y at %I:%M %p %Z".
IsoTimestamps ==
    { [text    |-> <<"2", "0", "2", "4", "-", "0", "1", "-", "1", "5", "T",
                     "1", "5", ":", "3", "0", ":", "0", "0", "Z">>,
       eastern |-> <<"J", "a", "n", " ", "1", "5", ",", " ", "2", "0", "2", "4",
                     " ", "a", "t", " ", "1", "0", ":", "3", "0", " ", "A", "M",
                     " ", "E", "S", "T">>] }

format_timestamp_blank(timestamp_str) ==
    IF timestamp_str = <<>> THEN <<>>
    ELSE IF \E t \in IsoTimestamps : t.text = timestamp_str
         THEN (CHOOSE t \in IsoTimestamps : t.text = timestamp_str).eastern
         ELSE <<>>

\* pdf_generator/utils.py: format_timestamp. A text that is not an ISO-8601
\* instant comes back as it is, after a warning.
format_timestamp(timestamp_str) ==
    IF timestamp_str = <<>> THEN <<>>
    ELSE IF \E t \in IsoTimestamps : t.text = timestamp_str
         THEN (CHOOSE t \in IsoTimestamps : t.text = timestamp_str).eastern
         ELSE timestamp_str

\* The words format_value looks for.
TIMESTAMP_KEYWORDS ==
    { <<"t", "i", "m", "e">>, <<"d", "a", "t", "e">>,
      <<"t", "i", "m", "e", "s", "t", "a", "m", "p">> }

\* pdf_generator/utils.py: format_value, as the text str() gives of its
\* result. The words are looked for in the value itself.
format_value(v) ==
    IF isinstance(v, "str")
    THEN IF \E keyword \in TIMESTAMP_KEYWORDS : contains(lower_text(v.value), keyword)
         THEN format_timestamp(v.value)
         ELSE v.value
    ELSE IF isinstance(v, "dict") \/ isinstance(v, "list")
         THEN json_dumps(v, 0)
         ELSE py_str(v)

\* The texts that are JSON documents among the inputs of the model, with
\* the value json.loads gives for each.
JsonDocuments ==
    { [text  |-> <<"{", "}">>,
       value |-> JDict(<<>>)],
      [text  |-> <<"{", "\"", "t", "i", "t", "l", "e", "\"", ":", "\"", "T", "\"", ",", "\"", "a", "\"", ":", "\"", "b", "\"", "}">>,
       value |-> JDict(<< << <<"t", "i", "t", "l", "e">>, JStr(<<"T">>) >>,
                          << <<"a">>, JStr(<<"b">>) >> >>)],
      [text  |-> <<"{", "\"", "s", "\"", ":", "{", "\"", "k", "\"", ":", "\"", "v", "\"", "}", ",", "\"", "l", "\"", ":", "[", "\"", "x", "\"", "]", "}">>,
       value |-> JDict(<< << <<"s">>, JDict(<< << <<"k">>, JStr(<<"v">>) >> >>) >>,
                          << <<"l">>, JList(<< JStr(<<"x">>) >>) >> >>)],
      [text  |-> <<"[", "1", "]">>,
       value |-> JList(<< JInt(1) >>)],
      [text  |-> <<"\"", "s", "\"">>,
       value |-> JStr(<<"s">>)],
      [text  |-> <<"7">>,
       value |-> JInt(7)],
      [text  |-> <<"n", "u", "l", "l">>,
       value |-> JNone] }

\* json.loads(text): the value, or JSONDecodeError for a text that is not
\* a JSON document.
json_loads(text) ==
    IF \E d \in JsonDocuments : d.text = text
    THEN [raised |-> "", value |-> (CHOOSE d \in JsonDocuments : d.text = text).value]
    ELSE [raised |-> "JSONDecodeError", value |-> JNone]

\* common/utils.py: parse_json_data turns JSONDecodeError into ValueError.
parse_json_data(text) ==
    IF json_loads(text).raised = "JSONDecodeError"
    THEN [raised |-> "ValueError", value |-> JNone]
    ELSE json_loads(text)

(***************************************************************************)
(* PDFGenerator: the story, a list of blocks.  A block records what it is  *)
(* and what it was made from, not how it is drawn.  An operator that can   *)
(* raise gives a record whose raised field names the exception, "" when    *)
(* it returned.                                                            *)
(***************************************************************************)
Paragraph(text, style) == [kind |-> "Paragraph", style |-> style, text |-> text]
Spacer == [kind |-> "Spacer"]
NoTable == [kind |-> "None"]

Returned(v) == [raised |-> "", value |-> v]
Raised(e) == [raised |-> e, value |-> <<>>]

FOUND_LINES == <<"f", "o", "u", "n", "d", "_", "l", "i", "n", "e", "s">>
QUALITY_CHECK == <<"q", "u", "a", "l", "i", "t", "y", "_", "c", "h", "e", "c", "k">>
TITLE == <<"t", "i", "t", "l", "e">>

\* Lengths are in hundredths of a point; reportlab's inch is 72 points.
INCH == 7200

\* config.py, DOC_CONFIG
TOTAL_WIDTH == 6 * INCH
MIN_HEADER_WIDTH == (12 * INCH) \div 10
HEADER_CHAR_WIDTH == 8
HEADER_PADDING == (3 * INCH) \div 10

\* ListTable.create: the label column is 1.5 inches wide.
LIST_HEADER_WIDTH == (15 * INCH) \div 10

Max(S) == CHOOSE m \in S : \A n \in S : n <= m

\* BaseTable._calculate_column_widths for a mapping with a key: the label
\* column has room for the longest header text, the value column the
\* rest of the total width.
calculate_column_widths(section_data) ==
    LET max_key_length ==
            Max({ Len(capitalize_header_text(section_data.value[i][1])) :
                    i \in 1..Len(section_data.value) })
        header_width ==
            Max({ MIN_HEADER_WIDTH,
                  max_key_length * HEADER_CHAR_WIDTH + HEADER_PADDING })
    IN  << header_width, TOTAL_WIDTH - header_width >>

\* table_factory.py, MergedTable.create, lines 152-156 and 165-169: the
\* "pattern: line" texts of one pattern are added to the list acc holds.
\* strip() is a method of str only.
RECURSIVE flatten_lines(_, _, _)
flatten_lines(pattern, lines, acc) ==
    IF lines = <<>> \/ acc.raised # "" THEN acc
    ELSE IF ~ isinstance(Head(lines), "str") THEN Raised("AttributeError")
    ELSE flatten_lines(pattern, Tail(lines),
             Returned(Append(acc.value,
                 JStr(pattern \o <<":", " ">> \o strip(Head(lines).value)))))

\* MergedTable.create, lines 150-156 and 163-169: the texts of a
\* found_lines mapping, pattern after pattern.
RECURSIVE flatten_found_lines(_, _)
flatten_found_lines(items, acc) ==
    IF items = <<>> \/ acc.raised # "" THEN acc
    ELSE flatten_found_lines(Tail(items),
             flatten_lines(Head(items)[1],
                           IF isinstance(Head(items)[2], "list")
                           THEN Head(items)[2].value
                           ELSE << Head(items)[2] >>,
                           acc))

value_list_strict(key, values) ==
    LET found_lines == IF isinstance(values, "str")
                       THEN json_loads(values.value).value
                       ELSE values
    IN  IF key = FOUND_LINES
        THEN IF isinstance(found_lines, "dict")
             THEN flatten_found_lines(found_lines.value, Returned(<<>>))
             ELSE IF isinstance(values, "str") THEN Raised("JSONDecodeError")
             ELSE Returned(<<values>>)
        ELSE IF isinstance(values, "list")
             THEN Returned(values.value)
             ELSE Returned(<<values>>)

\* MergedTable.create, lines 142-177: the values listed under one key.  A
\* found_lines text is parsed first; what is no mapping is listed as it is.
value_list(key, values) ==
    LET found_lines == IF isinstance(values, "str")
                       THEN json_loads(values.value).value
                       ELSE values
    IN  IF key = FOUND_LINES
        THEN IF isinstance(found_lines, "dict")
             THEN flatten_found_lines(found_lines.value, Returned(<<>>))
             ELSE Returned(<<values>>)
        ELSE IF isinstance(values, "list")
             THEN Returned(values.value)
             ELSE Returned(<<values>>)

add_rows_inclusive(key, values, table) ==
    IF values.raised # "" THEN values
    ELSE IF values.value = <<>> THEN Returned(table)
    ELSE Returned(
             [table_data |-> table.table_data \o
                  [i \in 1..Len(values.value) |-> <<key, py_str(values.value[i])>>],
              merge_ranges |-> Append(table.merge_ranges,
                  << key, table.current_row,
                     table.current_row + Len(values.value) >>),
              current_row |-> table.current_row + Len(values.value)])

\* MergedTable.create, lines 179-189: one row per listed value, of the key
\* and str(value), and the range of rows, counted from 0, the key cell
\* spans; nothing for an empty list.
add_rows(key, values, table) ==
    IF values.raised # "" THEN values
    ELSE IF values.value = <<>> THEN Returned(table)
    ELSE Returned(
             [table_data |-> table.table_data \o
                  [i \in 1..Len(values.value) |-> <<key, py_str(values.value[i])>>],
              merge_ranges |-> Append(table.merge_ranges,
                  << key, table.current_row,
                     table.current_row + Len(values.value) - 1 >>),
              current_row |-> table.current_row + Len(values.value)])

\* MergedTable.create, lines 138-189: the loop over the keys.
RECURSIVE merged_rows(_, _)
merged_rows(items, acc) ==
    IF items = <<>> \/ acc.raised # "" THEN acc
    ELSE merged_rows(Tail(items),
             add_rows(Head(items)[1],
                      value_list(Head(items)[1], Head(items)[2]),
                      acc.value))

\* MergedTable._get_style, lines 241-244: a SPAN command over the label
\* cells of every range of more than one row.
get_style(merge_ranges) ==
    LET spanned == SelectSeq(merge_ranges, LAMBDA r : r[2] # r[3])
    IN  [i \in 1..Len(spanned) |->
            << "SPAN", <<0, spanned[i][2]>>, <<0, spanned[i][3]>> >>]

\* MergedTable.create, lines 191-201: no table without rows.
merged_table(rows, col_widths) ==
    IF rows.raised # "" THEN rows
    ELSE IF rows.value.table_data = <<>> THEN Returned(NoTable)
    ELSE Returned([kind |-> "MergedTable",
                   table_data |-> rows.value.table_data,
                   merge_ranges |-> rows.value.merge_ranges,
                   current_row |-> rows.value.current_row,
                   style |-> get_style(rows.value.merge_ranges),
                   col_widths |-> col_widths])

\* TableFactory.create_merged_table / MergedTable.create
create_merged_table(section_data) ==
    IF section_data.value = <<>> THEN Returned(NoTable)
    ELSE merged_table(merged_rows(section_data.value,
                          Returned([table_data |-> <<>>, merge_ranges |-> <<>>,
                                    current_row |-> 0])),
                      calculate_column_widths(section_data))

\* TableFactory.create_dict_table / DictTable.create: one row per key, of the
\* key (shown as a header) and the text of the formatted value.
create_dict_table(section_data) ==
    IF section_data.value = <<>> THEN Returned(NoTable)
    ELSE Returned([kind |-> "DictTable",
                   table_data |-> [i \in 1..Len(section_data.value) |->
                                      << section_data.value[i][1],
                                         format_value(section_data.value[i][2]) >>],
                   col_widths |-> calculate_column_widths(section_data)])

\* TableFactory.create_traditional_table / TraditionalTable.create: the
\* keys of the first element head the columns, of equal width
\* total_width / num_cols.
create_traditional_table(section_data) ==
    IF section_data.value = <<>> THEN Returned(NoTable)
    ELSE IF section_data.value[1].value = <<>> THEN Raised("ZeroDivisionError")
    ELSE Returned([kind |-> "TraditionalTable",
                   header |-> [i \in 1..Len(section_data.value[1].value) |->
                                  section_data.value[1].value[i][1]],
                   table_data |-> [i \in 1..Len(section_data.value) |->
                                      [j \in 1..Len(section_data.value[1].value) |->
                                          format_value(dict_get(section_data.value[i],
                                                                section_data.value[1].value[j][1],
                                                                JStr(<<>>)))]]])

\* TableFactory.create_list_table / ListTable.create: one row per element,
\* of str(item), labelled with the section header and the index from 1.
create_list_table(section_data, section_name) ==
    IF section_data.value = <<>> THEN Returned(NoTable)
    ELSE Returned([kind |-> "ListTable",
                   table_data |->
                       [i \in 1..Len(section_data.value) |->
                           << capitalize_header_text(section_name), i,
                              py_str(section_data.value[i]) >>],
                   col_widths |-> << LIST_HEADER_WIDTH,
                                     TOTAL_WIDTH - LIST_HEADER_WIDTH >>])

is_traditional_table_candidate_ordered(section_data) ==
    /\ Len(section_data.value) > 0
    /\ \A i \in 1..Len(section_data.value) : isinstance(section_data.value[i], "dict")
    /\ Cardinality({ [j \in 1..Len(section_data.value[i].value) |->
                         section_data.value[i].value[j][1]] :
                       i \in 1..Len(section_data.value) }) = 1

\* PDFGenerator._is_traditional_table_candidate
is_traditional_table_candidate(section_data) ==
    /\ Len(section_data.value) > 0
    /\ \A i \in 1..Len(section_data.value) : isinstance(section_data.value[i], "dict")
    /\ Cardinality({ dict_keys(section_data.value[i]) :
                       i \in 1..Len(section_data.value) }) = 1

should_use_merged_cells_any_list(section_data) ==
    \E i \in 1..Len(section_data.value) :
        /\ isinstance(section_data.value[i][2], "list")
        /\ Len(section_data.value[i][2].value) > 0

\* PDFGenerator._create_dict_section, lines 109-112
should_use_merged_cells(section_data) ==
    \E i \in 1..Len(section_data.value) :
        /\ isinstance(section_data.value[i][2], "list")
        /\ Len(section_data.value[i][2].value) > 1

\* PDFGenerator._create_dict_section, lines 122-129: heading, table and
\* spacer, or nothing when there is no table.
dict_section_story(section_name, table) ==
    IF table.raised # "" THEN table
    ELSE IF table.value = NoTable THEN Returned(<<>>)
    ELSE Returned(<< Paragraph(capitalize_header_text(section_name), "heading"),
                     table.value,
                     Spacer >>)

\* PDFGenerator._create_dict_section
create_dict_section(section_name, section_data) ==
    dict_section_story(section_name,
        IF section_name = QUALITY_CHECK /\ dict_has(section_data, FOUND_LINES)
        THEN create_merged_table(section_data)
        ELSE IF should_use_merged_cells(section_data)
             THEN create_merged_table(section_data)
             ELSE create_dict_table(section_data))

\* PDFGenerator._create_list_section, lines 138-152: the heading, then the
\* table and a spacer when there is a table.
list_section_story(section_name, table) ==
    IF table.raised # "" THEN table
    ELSE IF table.value = NoTable
         THEN Returned(<< Paragraph(capitalize_header_text(section_name), "heading") >>)
    ELSE Returned(<< Paragraph(capitalize_header_text(section_name), "heading"),
                     table.value,
                     Spacer >>)

\* PDFGenerator._create_list_section
create_list_section(section_name, section_data) ==
    IF section_data.value = <<>> THEN Returned(<<>>)
    ELSE list_section_story(section_name,
             IF is_traditional_table_candidate(section_data)
             THEN create_traditional_table(section_data)
             ELSE create_list_table(section_data, section_name))

create_simple_section_inclusive(section_name, section_data) ==
    Returned(<< Paragraph(capitalize_header_text(section_name), "heading"),
                IF Len(py_str(section_data)) >= 100
                THEN Paragraph(py_str(section_data), "normal")
                ELSE [kind |-> "ValueBox", text |-> py_str(section_data)],
                Spacer >>)

\* PDFGenerator._create_simple_section: a paragraph for a text of more
\* than 100 characters, a value box for any other.
create_simple_section(section_name, section_data) ==
    Returned(<< Paragraph(capitalize_header_text(section_name), "heading"),
                IF Len(py_str(section_data)) > 100
                THEN Paragraph(py_str(section_data), "normal")
                ELSE [kind |-> "ValueBox", text |-> py_str(section_data)],
                Spacer >>)

\* list.extend with what a method returned, unless it raised.
extend(story_, section) ==
    IF section.raised # "" THEN section
    ELSE Returned(story_ \o section.value)

RECURSIVE create_content_sections_with_title(_, _)
create_content_sections_with_title(items, acc) ==
    IF acc.raised # "" \/ items = <<>> THEN acc
    ELSE create_content_sections_with_title(Tail(items),
             extend(acc.value,
                 IF isinstance(Head(items)[2], "dict")
                 THEN create_dict_section(Head(items)[1], Head(items)[2])
                 ELSE IF isinstance(Head(items)[2], "list")
                      THEN create_list_section(Head(items)[1], Head(items)[2])
                 ELSE create_simple_section(Head(items)[1], Head(items)[2])))

\* PDFGenerator._create_content_sections: the sections of items are added
\* to the story acc holds, in the order of the mapping, the title key left
\* out.
RECURSIVE create_content_sections(_, _)
create_content_sections(items, acc) ==
    IF acc.raised # "" \/ items = <<>> THEN acc
    ELSE create_content_sections(Tail(items),
             extend(acc.value,
                 IF Head(items)[1] = TITLE THEN Returned(<<>>)
                 ELSE IF isinstance(Head(items)[2], "dict")
                      THEN create_dict_section(Head(items)[1], Head(items)[2])
                 ELSE IF isinstance(Head(items)[2], "list")
                      THEN create_list_section(Head(items)[1], Head(items)[2])
                 ELSE create_simple_section(Head(items)[1], Head(items)[2])))

\* PDFGenerator._create_title_section: report_data.get is a method of
\* dict only.
create_title_section(data_) ==
    IF ~ isinstance(data_, "dict") THEN Raised("AttributeError")
    ELSE Returned(<< Paragraph(dict_get(data_, TITLE, JStr(<<"R", "e", "p", "o", "r", "t">>)),
                               "title"),
                     Spacer,
                     [kind |-> "TitleDivider"],
                     Spacer >>)

\* PDFGenerator._create_footer_section: the text is the time of the run.
create_footer_section ==
    << Spacer, [kind |-> "FooterDivider"], [kind |-> "Paragraph", style |-> "footer"] >>

\* PDFGenerator._build_story, line 68: the footer ends the story.
extend_footer(story_) ==
    IF story_.raised # "" THEN story_
    ELSE Returned(story_.value \o create_footer_section)

build_story_lenient(data_) ==
    IF ~ isinstance(data_, "dict")
    THEN extend_footer(create_title_section(JDict(<<>>)))
    ELSE extend_footer(create_content_sections(data_.value, create_title_section(data_)))

\* PDFGenerator._build_story: title section, content sections, footer.
build_story(data_) ==
    extend_footer(create_content_sections(data_.value, create_title_section(data_)))

\* format_timestamp, lines 32-36: the warning logged for a text that is
\* no ISO-8601 instant; the empty text returns before the attempt.
format_timestamp_warnings(timestamp_str) ==
    IF timestamp_str = <<>> \/ (\E t \in IsoTimestamps : t.text = timestamp_str)
    THEN <<>>
    ELSE << <<"[WARNING]", "Failed to format timestamp", timestamp_str>> >>

\* format_value: what the call logs.
format_value_warnings(v) ==
    IF /\ isinstance(v, "str")
       /\ \E keyword \in TIMESTAMP_KEYWORDS : contains(lower_text(v.value), keyword)
    THEN format_timestamp_warnings(v.value)
    ELSE <<>>

\* The warnings of the cells of rows, a sequence of sequences of values,
\* row after row.
RECURSIVE cell_warnings(_, _, _)
cell_warnings(rows, i, j) ==
    IF i > Len(rows) THEN <<>>
    ELSE IF j > Len(rows[i]) THEN cell_warnings(rows, i + 1, 1)
    ELSE format_value_warnings(rows[i][j]) \o cell_warnings(rows, i, j + 1)

\* What building one section logs: DictTable.create and
\* TraditionalTable.create format every cell, the other tables none.
section_warnings(section_name, section_data) ==
    IF section_name = TITLE THEN <<>>
    ELSE IF isinstance(section_data, "dict")
    THEN IF \/ section_name = QUALITY_CHECK /\ dict_has(section_data, FOUND_LINES)
            \/ should_use_merged_cells(section_data)
         THEN <<>>
         ELSE cell_warnings([i \in 1..Len(section_data.value) |->
                                << section_data.value[i][2] >>], 1, 1)
    ELSE IF /\ isinstance(section_data, "list")
            /\ section_data.value # <<>>
            /\ is_traditional_table_candidate(section_data)
    THEN cell_warnings([i \in 1..Len(section_data.value) |->
                           [j \in 1..Len(section_data.value[1].value) |->
                               dict_get(section_data.value[i],
                                        section_data.value[1].value[j][1],
                                        JStr(<<>>))]], 1, 1)
    ELSE <<>>

\* What _create_content_sections logs: the warnings of the sections up to
\* the first that raises.
RECURSIVE content_warnings(_, _)
content_warnings(items, acc) ==
    IF items = <<>> \/ acc.raised # "" THEN <<>>
    ELSE section_warnings(Head(items)[1], Head(items)[2])
         \o content_warnings(Tail(items),
                create_content_sections(<<Head(items)>>, acc))

\* What _build_story logs.
build_story_warnings(data_) ==
    IF ~ isinstance(data_, "dict") THEN <<>>
    ELSE content_warnings(data_.value, Returned(<<>>))

(***************************************************************************)
(* The runs of the report scripts.                                         *)
(***************************************************************************)
DEFAULT_FILENAME == <<"r", "e", "p", "o", "r", "t">>
EMPTY_OBJECT == <<"{", "}">>
PDF_EXTENSION == <<".", "p", "d", "f">>
HTML_EXTENSION == <<".", "h", "t", "m", "l">>

\* The name NamedTemporaryFile gives the temporary Markdown file.
TEMP_MD == <<"t", "m", "p", ".", "m", "d">>

\* HTMLGenerator.generate, line 56, and _generate_html_with_grip, line 92:
\* the messages of the two RuntimeErrors.
GRIP_NOT_INSTALLED == "Grip is not installed or not available in PATH"
GENERATION_FAILED == "Failed to generate HTML"

\* html_generator/utils.py: validate_grip_installation runs grip --version.
validate_grip_installation == grip_available

\* str(e) for what the story builders raise.
str_exception(e) ==
    IF e = "AttributeError" THEN "object has no attribute"
    ELSE IF e = "ZeroDivisionError" THEN "division by zero"
    ELSE e

Entries == {"generate_report", "pdf_generator", "html_generator"}

\* REPORT_DATA: empty, blank, Markdown, the malformed JSON of the tests,
\* and the JSON documents.
ReportDataInputs ==
    { <<>>, <<" ", "\n">>, <<"#", " ", "T">>, <<"{", "i", "n", "v", "a", "l", "i", "d", " ", "j", "s", "o", "n", "}">> }
    \cup { d.text : d \in JsonDocuments }

DataTypeInputs == {"json", "markdown", "xml", ""}

OutputFilenameInputs == { <<"o", "u", "t">>, <<"a", ".", "h", "t", "m", "l">> }

ReportEnvirons ==
    UNION { { [k \in K |-> IF k = "REPORT_DATA" THEN rd
                           ELSE IF k = "DATA_TYPE" THEN dt ELSE name] :
                rd \in ReportDataInputs, dt \in DataTypeInputs,
                name \in OutputFilenameInputs } :
            K \in SUBSET {"REPORT_DATA", "DATA_TYPE", "OUTPUT_FILENAME"} }

\* No resolver runs beside the report script.
ResolverIdle ==
    /\ mappings_yml = <<>>
    /\ invocation = 0
    /\ first_run = <<>>
    /\ changed_files = <<>>
    /\ environment = ""
    /\ account_mappings = <<>>
    /\ directories = {}
    /\ account_types = <<>>
    /\ account_numbers = <<>>

InitReport ==
    /\ environ \in ReportEnvirons
    /\ entry \in Entries
    /\ pc = "main"
    /\ stdout = <<>>
    /\ stderr = <<>>
    /\ exit_code = -1
    /\ data = <<>>
    /\ output_filename = <<>>
    /\ data_type = ""
    /\ report_data = JNone
    /\ generator = ""
    /\ self_output_filename = <<>>
    /\ doc = ""
    /\ story = <<>>
    /\ temp_md_path = <<>>
    /\ raised = ""
    /\ message = ""
    /\ grip_available \in BOOLEAN
    /\ filename = <<>>
    /\ files = {}
    /\ temp_files = {}
    /\ grip_exports = <<>>
    /\ cleanup_calls = <<>>
    /\ ResolverIdle

\* generate_report.py, main, lines 25-35: read the inputs.
report_main ==

    /\ entry = "generate_report"
    /\ pc = "main"
    /\ data' = environ_get("REPORT_DATA", <<>>)
    /\ output_filename' = environ_get("OUTPUT_FILENAME", DEFAULT_FILENAME)
    /\ data_type' = environ_get("DATA_TYPE", "json")
    /\ stdout' = Append(stdout, <<"[INFO]", "Starting report generation">>)
    /\ pc' = "dispatch"
    /\ UNCHANGED <<environ, stderr, exit_code, entry, report_data, generator,
                   self_output_filename, doc, story, temp_md_path, raised,
                   message, grip_available, filename, files, temp_files,
                   grip_exports, cleanup_calls>>
    /\ UNCHANGED resolverVars

\* generate_report.py, main, lines 37-42: parse_json_data raises ValueError.
dispatch_json_invalid ==

    /\ pc = "dispatch"
    /\ data_type = "json"
    /\ parse_json_data(data).raised # ""
    /\ raised' = parse_json_data(data).raised
    /\ message' = "Invalid JSON data"
    /\ pc' = "except"
    /\ UNCHANGED <<environ, stdout, stderr, exit_code, entry, data,
                   output_filename, data_type, report_data, generator,
                   self_output_filename, doc, story, temp_md_path,
                   grip_available, filename, files, temp_files, grip_exports,
                   cleanup_calls>>
    /\ UNCHANGED resolverVars

\* generate_report.py, main, lines 37-43, and PDFGenerator.__init__: the JSON is
\* parsed and the PDF generator constructed.
dispatch_json ==

    /\ pc = "dispatch"
    /\ data_type = "json"
    /\ parse_json_data(data).raised = ""
    /\ report_data' = parse_json_data(data).value
    /\ generator' = "PDFGenerator"
    /\ self_output_filename' = output_filename \o PDF_EXTENSION
    /\ pc' = "pdf_generate"
    /\ UNCHANGED <<environ, stdout, stderr, exit_code, entry, data,
                   output_filename, data_type, doc, story, temp_md_path,
                   raised, message, grip_available, filename, files,
                   temp_files, grip_exports, cleanup_calls>>
    /\ UNCHANGED resolverVars

\* generate_report.py, main, lines 46-50, and HTMLGenerator.__init__.
dispatch_markdown ==

    /\ pc = "dispatch"
    /\ data_type = "markdown"
    /\ generator' = "HTMLGenerator"
    /\ self_output_filename' = output_filename \o HTML_EXTENSION
    /\ pc' = "html_generate"
    /\ UNCHANGED <<environ, stdout, stderr, exit_code, entry, data,
                   output_filename, data_type, report_data, doc, story,
                   temp_md_path, raised, message, grip_available, filename,
                   files, temp_files, grip_exports, cleanup_calls>>
    /\ UNCHANGED resolverVars

dispatch_unsupported_logged ==

    /\ pc = "dispatch"
    /\ data_type \notin {"json", "markdown"}
    /\ stderr' = Append(stderr, <<"Error", "Unsupported data type", data_type>>)
    /\ pc' = "success"
    /\ UNCHANGED <<environ, stdout, exit_code, entry, data, output_filename,
                   data_type, report_data, generator, self_output_filename,
                   doc, story, temp_md_path, raised, message, grip_available,
                   filename, files, temp_files, grip_exports, cleanup_calls>>
    /\ UNCHANGED resolverVars

\* generate_report.py, main, lines 53-54: exit_with_error ends the process; the
\* SystemExit it raises is no Exception and passes the except clause.
dispatch_unsupported ==

    /\ pc = "dispatch"
    /\ data_type \notin {"json", "markdown"}
    /\ stderr' = Append(stderr, <<"Error", "Unsupported data type", data_type>>)
    /\ exit_code' = 1
    /\ pc' = "exited"
    /\ UNCHANGED <<environ, stdout, entry, data, output_filename, data_type,
                   report_data, generator, self_output_filename, doc, story,
                   temp_md_path, raised, message, grip_available, filename,
                   files, temp_files, grip_exports, cleanup_calls>>
    /\ UNCHANGED resolverVars

pdf_main_invalid_built ==

    /\ entry = "pdf_generator"
    /\ pc = "main"
    /\ json_loads(environ_get("REPORT_DATA", EMPTY_OBJECT)).raised # ""
    /\ stdout' = stdout \o << <<"[INFO]", "Starting JSON PDF generation process">>,
                              <<"[ERROR]", "Failed to parse REPORT_DATA">> >>
    /\ report_data' = JDict(<<>>)
    /\ output_filename' = environ_get("OUTPUT_FILENAME", DEFAULT_FILENAME)
    /\ generator' = "PDFGenerator"
    /\ self_output_filename' =
           environ_get("OUTPUT_FILENAME", DEFAULT_FILENAME) \o PDF_EXTENSION
    /\ pc' = "pdf_generate"
    /\ UNCHANGED <<environ, stderr, exit_code, entry, data, data_type, doc,
                   story, temp_md_path, raised, message, grip_available,
                   filename, files, temp_files, grip_exports, cleanup_calls>>
    /\ UNCHANGED resolverVars

\* pdf_generator/run.py, main, create_pdf_report and _parse_report_data, lines
\* 199-224: REPORT_DATA is no JSON document; sys.exit(1).
pdf_main_invalid ==

    /\ entry = "pdf_generator"
    /\ pc = "main"
    /\ json_loads(environ_get("REPORT_DATA", EMPTY_OBJECT)).raised # ""
    /\ stdout' = stdout \o << <<"[INFO]", "Starting JSON PDF generation process">>,
                              <<"[ERROR]", "Failed to parse REPORT_DATA">>,
                              <<"[ERROR]", "Raw data">> >>
    /\ exit_code' = 1
    /\ pc' = "exited"
    /\ UNCHANGED <<environ, stderr, entry, data, output_filename, data_type,
                   report_data, generator, self_output_filename, doc, story,
                   temp_md_path, raised, message, grip_available, filename,
                   files, temp_files, grip_exports, cleanup_calls>>
    /\ UNCHANGED resolverVars

\* pdf_generator/run.py, main and create_pdf_report, lines 199-209 and 227-231:
\* REPORT_DATA is parsed and the PDF generator constructed.
pdf_main ==

    /\ entry = "pdf_generator"
    /\ pc = "main"
    /\ json_loads(environ_get("REPORT_DATA", EMPTY_OBJECT)).raised = ""
    /\ stdout' = Append(stdout, <<"[INFO]", "Starting JSON PDF generation process">>)
    /\ report_data' = json_loads(environ_get("REPORT_DATA", EMPTY_OBJECT)).value
    /\ output_filename' = environ_get("OUTPUT_FILENAME", DEFAULT_FILENAME)
    /\ generator' = "PDFGenerator"
    /\ self_output_filename' =
           environ_get("OUTPUT_FILENAME", DEFAULT_FILENAME) \o PDF_EXTENSION
    /\ pc' = "pdf_generate"
    /\ UNCHANGED <<environ, stderr, exit_code, entry, data, data_type, doc,
                   story, temp_md_path, raised, message, grip_available,
                   filename, files, temp_files, grip_exports, cleanup_calls>>
    /\ UNCHANGED resolverVars

\* html_generator/run.py, main and create_html_report, lines 100-120 and
\* 123-132: the HTML generator is constructed on REPORT_DATA.
html_main ==

    /\ entry = "html_generator"
    /\ pc = "main"
    /\ stdout' = Append(stdout, <<"[INFO]", "Starting Markdown HTML generation process">>)
    /\ data' = environ_get("REPORT_DATA", <<>>)
    /\ output_filename' = environ_get("OUTPUT_FILENAME", DEFAULT_FILENAME)
    /\ generator' = "HTMLGenerator"
    /\ self_output_filename' =
           environ_get("OUTPUT_FILENAME", DEFAULT_FILENAME) \o HTML_EXTENSION
    /\ pc' = "html_generate"
    /\ UNCHANGED <<environ, stderr, exit_code, entry, data_type, report_data,
                   doc, story, temp_md_path, raised, message, grip_available,
                   filename, files, temp_files, grip_exports, cleanup_calls>>
    /\ UNCHANGED resolverVars

\* PDFGenerator.generate, lines 30-35, and _create_document: the document
\* template is made; nothing is written yet.
pdf_create_document ==

    /\ pc = "pdf_generate"
    /\ stdout' = Append(stdout, <<"[INFO]", "Starting PDF report generation">>)
    /\ doc' = "created"
    /\ pc' = "pdf_build_story"
    /\ UNCHANGED <<environ, stderr, exit_code, entry, data, output_filename,
                   data_type, report_data, generator, self_output_filename,
                   story, temp_md_path, raised, message, grip_available,
                   filename, files, temp_files, grip_exports, cleanup_calls>>
    /\ UNCHANGED resolverVars

pdf_build_story_partial ==

    /\ pc = "pdf_build_story"
    /\ build_story(report_data).raised # ""
    /\ raised' = build_story(report_data).raised
    /\ message' = str_exception(build_story(report_data).raised)
    /\ files' = files \cup {self_output_filename}
    /\ stdout' = stdout \o build_story_warnings(report_data)
    /\ pc' = "except"
    /\ UNCHANGED <<environ, stderr, exit_code, entry, data, output_filename,
                   data_type, report_data, generator, self_output_filename,
                   doc, story, temp_md_path, grip_available, filename,
                   temp_files, grip_exports, cleanup_calls>>
    /\ UNCHANGED resolverVars

\* PDFGenerator.generate, line 38: _build_story raises, after the warnings
\* of the sections it built.
pdf_build_story_raises ==

    /\ pc = "pdf_build_story"
    /\ build_story(report_data).raised # ""
    /\ raised' = build_story(report_data).raised
    /\ message' = str_exception(build_story(report_data).raised)
    /\ stdout' = stdout \o build_story_warnings(report_data)
    /\ pc' = "except"
    /\ UNCHANGED <<environ, stderr, exit_code, entry, data, output_filename,
                   data_type, report_data, generator, self_output_filename,
                   doc, story, temp_md_path, grip_available, filename, files,
                   temp_files, grip_exports, cleanup_calls>>
    /\ UNCHANGED resolverVars

\* PDFGenerator.generate, line 38: _build_story returns the story, after
\* the warnings of its sections.
pdf_build_story ==

    /\ pc = "pdf_build_story"
    /\ build_story(report_data).raised = ""
    /\ story' = build_story(report_data).value
    /\ stdout' = stdout \o build_story_warnings(report_data)
    /\ pc' = "pdf_doc_build"
    /\ UNCHANGED <<environ, stderr, exit_code, entry, data, output_filename,
                   data_type, report_data, generator, self_output_filename,
                   doc, temp_md_path, raised, message, grip_available,
                   filename, files, temp_files, grip_exports, cleanup_calls>>
    /\ UNCHANGED resolverVars

\* PDFGenerator.generate, lines 40-44: doc.build writes the file and generate
\* returns its name, or the build fails and nothing is written.
pdf_doc_build ==

    /\ pc = "pdf_doc_build"
    /\ stdout' = Append(stdout, <<"[INFO]", "Building PDF document...">>)
    /\ \E built \in BOOLEAN :
           IF built
           THEN /\ doc' = "built"
                /\ files' = files \cup {self_output_filename}
                /\ filename' = self_output_filename
                /\ pc' = "success"
                /\ UNCHANGED <<raised, message>>
           ELSE /\ raised' = "Exception"
                /\ message' = "doc.build failed"
                /\ pc' = "except"
                /\ UNCHANGED <<doc, files, filename>>
    /\ UNCHANGED <<environ, stderr, exit_code, entry, data, output_filename,
                   data_type, report_data, generator, self_output_filename,
                   story, temp_md_path, grip_available, temp_files,
                   grip_exports, cleanup_calls>>
    /\ UNCHANGED resolverVars

html_validate_grip_skipped ==

    /\ pc = "html_generate"
    /\ stdout' = Append(stdout, <<"[INFO]", "Starting HTML report generation">>)
    /\ pc' = "html_validate_data"
    /\ UNCHANGED <<environ, stderr, exit_code, entry, data, output_filename,
                   data_type, report_data, generator, self_output_filename,
                   doc, story, temp_md_path, raised, message, grip_available,
                   filename, files, temp_files, grip_exports, cleanup_calls>>
    /\ UNCHANGED resolverVars

\* HTMLGenerator.generate, lines 51-56, and validate_grip_installation: RuntimeError
\* unless grip answers --version.
html_validate_grip ==

    /\ pc = "html_generate"
    /\ stdout' = Append(stdout, <<"[INFO]", "Starting HTML report generation">>)
    /\ IF validate_grip_installation
       THEN /\ pc' = "html_validate_data"
            /\ UNCHANGED <<raised, message>>
       ELSE /\ raised' = "RuntimeError"
            /\ message' = GRIP_NOT_INSTALLED
            /\ pc' = "except"
    /\ UNCHANGED <<environ, stderr, exit_code, entry, data, output_filename,
                   data_type, report_data, generator, self_output_filename,
                   doc, story, temp_md_path, grip_available, filename, files,
                   temp_files, grip_exports, cleanup_calls>>
    /\ UNCHANGED resolverVars

html_validate_data_skipped ==

    /\ pc = "html_validate_data"
    /\ pc' = "html_create_temp"
    /\ UNCHANGED <<environ, stdout, stderr, exit_code, entry, data,
                   output_filename, data_type, report_data, generator,
                   self_output_filename, doc, story, temp_md_path, raised,
                   message, grip_available, filename, files, temp_files,
                   grip_exports, cleanup_calls>>
    /\ UNCHANGED resolverVars

\* HTMLGenerator.generate, lines 58-59, and common/utils.py, validate_data:
\* ValueError for a content that is blank.
html_validate_data ==

    /\ pc = "html_validate_data"
    /\ IF strip(data) = <<>>
       THEN /\ raised' = "ValueError"
            /\ message' = "No markdown content provided"
            /\ pc' = "except"
       ELSE /\ pc' = "html_create_temp"
            /\ UNCHANGED <<raised, message>>
    /\ UNCHANGED <<environ, stdout, stderr, exit_code, entry, data,
                   output_filename, data_type, report_data, generator,
                   self_output_filename, doc, story, temp_md_path,
                   grip_available, filename, files, temp_files, grip_exports,
                   cleanup_calls>>
    /\ UNCHANGED resolverVars

\* _generate_html_with_grip, lines 75-79, and create_temp_markdown_file: the
\* file is created, written and its name returned; or it cannot be created; or
\* it is created and the write fails.  A failure is caught at lines 90-92 and
\* raised again as RuntimeError, and the finally clause finds temp_md_path None.
html_create_temp ==

    /\ pc = "html_create_temp"
    /\ stdout' = Append(stdout, <<"[INFO]", "Generating HTML with Grip...">>)
    /\ \E outcome \in {"written", "not created", "write failed"} :
           /\ temp_files' = IF outcome = "not created"
                            THEN temp_files
                            ELSE temp_files \cup {TEMP_MD}
           /\ IF outcome = "written"
              THEN /\ temp_md_path' = TEMP_MD
                   /\ pc' = "html_run_grip"
                   /\ UNCHANGED <<raised, message>>
              ELSE /\ raised' = "RuntimeError"
                   /\ message' = GENERATION_FAILED
                   /\ pc' = "except"
                   /\ UNCHANGED temp_md_path
    /\ UNCHANGED <<environ, stderr, exit_code, entry, data, output_filename,
                   data_type, report_data, generator, self_output_filename,
                   doc, story, grip_available, filename, files, grip_exports,
                   cleanup_calls>>
    /\ UNCHANGED resolverVars

\* _generate_html_with_grip, lines 81-92, and run_grip_command: grip exports to
\* the path made of the output file name without ".html", plus ".html"; a
\* failed command is caught and raised again as RuntimeError.
html_run_grip ==

    /\ pc = "html_run_grip"
    /\ LET export == replace(self_output_filename, HTML_EXTENSION, <<>>) \o HTML_EXTENSION
       IN  /\ grip_exports' = Append(grip_exports, export)
           /\ \E exported \in BOOLEAN :
                  IF exported
                  THEN /\ files' = files \cup {export}
                       /\ UNCHANGED <<raised, message>>
                  ELSE /\ raised' = "RuntimeError"
                       /\ message' = GENERATION_FAILED
                       /\ UNCHANGED files
    /\ pc' = "html_cleanup"
    /\ UNCHANGED <<environ, stdout, stderr, exit_code, entry, data,
                   output_filename, data_type, report_data, generator,
                   self_output_filename, doc, story, temp_md_path,
                   grip_available, filename, temp_files, cleanup_calls>>
    /\ UNCHANGED resolverVars

html_cleanup_on_success ==

    /\ pc = "html_cleanup"
    /\ IF raised = ""
       THEN /\ cleanup_calls' = Append(cleanup_calls, temp_md_path)
            /\ \E unlinked \in BOOLEAN :
                   IF unlinked
                   THEN /\ temp_files' = temp_files \ {temp_md_path}
                        /\ UNCHANGED stdout
                   ELSE /\ stdout' = Append(stdout,
                               <<"[WARNING]", "Could not remove temporary file", temp_md_path>>)
                        /\ UNCHANGED temp_files
            /\ filename' = self_output_filename
            /\ pc' = "success"
       ELSE /\ pc' = "except"
            /\ UNCHANGED <<cleanup_calls, temp_files, stdout, filename>>
    /\ UNCHANGED <<environ, stderr, exit_code, entry, data, output_filename,
                   data_type, report_data, generator, self_output_filename,
                   doc, story, temp_md_path, raised, message, grip_available,
                   files, grip_exports>>
    /\ UNCHANGED resolverVars

\* _generate_html_with_grip, lines 94-97, and cleanup_temp_file: the finally
\* clause calls cleanup_temp_file, which unlinks the temporary file or logs
\* that it could not; then the function returns the output file name or the
\* exception goes on.
html_cleanup ==

    /\ pc = "html_cleanup"
    /\ cleanup_calls' = Append(cleanup_calls, temp_md_path)
    /\ \E unlinked \in BOOLEAN :
           IF unlinked
           THEN /\ temp_files' = temp_files \ {temp_md_path}
                /\ UNCHANGED stdout
           ELSE /\ stdout' = Append(stdout,
                       <<"[WARNING]", "Could not remove temporary file", temp_md_path>>)
                /\ UNCHANGED temp_files
    /\ IF raised = ""
       THEN /\ filename' = self_output_filename
            /\ pc' = "success"
       ELSE /\ pc' = "except"
            /\ UNCHANGED filename
    /\ UNCHANGED <<environ, stderr, exit_code, entry, data, output_filename,
                   data_type, report_data, generator, self_output_filename,
                   doc, story, temp_md_path, raised, message, grip_available,
                   files, grip_exports>>
    /\ UNCHANGED resolverVars

\* generate_report.py, main, line 56; html_generator/run.py, main, line 133;
\* pdf_generator/run.py, main, lines 232-233: the success line, exit code 0.
exit_with_success ==

    /\ pc = "success"
    /\ stdout' = Append(stdout,
           IF entry = "pdf_generator"
           THEN <<"[INFO]", "Successfully generated PDF", filename>>
           ELSE <<"Success", "Successfully generated", filename>>)
    /\ exit_code' = 0
    /\ pc' = "exited"
    /\ UNCHANGED <<environ, stderr, entry, data, output_filename, data_type,
                   report_data, generator, self_output_filename, doc, story,
                   temp_md_path, raised, message, grip_available, filename,
                   files, temp_files, grip_exports, cleanup_calls>>
    /\ UNCHANGED resolverVars

exit_with_error_zero ==

    /\ pc = "except"
    /\ IF entry = "pdf_generator"
       THEN /\ stdout' = Append(stdout, <<"[ERROR]", "Error generating PDF", message>>)
            /\ UNCHANGED stderr
       ELSE /\ stderr' = Append(stderr, <<"Error", "Error generating", message>>)
            /\ UNCHANGED stdout
    /\ exit_code' = 0
    /\ pc' = "exited"
    /\ UNCHANGED <<environ, entry, data, output_filename, data_type,
                   report_data, generator, self_output_filename, doc, story,
                   temp_md_path, raised, message, grip_available, filename,
                   files, temp_files, grip_exports, cleanup_calls>>
    /\ UNCHANGED resolverVars

\* generate_report.py, main, lines 58-59; html_generator/run.py, main, lines
\* 134-135; pdf_generator/run.py, main, lines 234-236: the exception is
\* reported, exit code 1.
exit_with_error ==

    /\ pc = "except"
    /\ IF entry = "pdf_generator"
       THEN /\ stdout' = Append(stdout, <<"[ERROR]", "Error generating PDF", message>>)
            /\ UNCHANGED stderr
       ELSE /\ stderr' = Append(stderr, <<"Error", "Error generating", message>>)
            /\ UNCHANGED stdout
    /\ exit_code' = 1
    /\ pc' = "exited"
    /\ UNCHANGED <<environ, entry, data, output_filename, data_type,
                   report_data, generator, self_output_filename, doc, story,
                   temp_md_path, raised, message, grip_available, filename,
                   files, temp_files, grip_exports, cleanup_calls>>
    /\ UNCHANGED resolverVars

NextReport ==
    \/ report_main
    \/ dispatch_json_invalid
    \/ dispatch_json
    \/ dispatch_markdown
    \/ dispatch_unsupported
    \/ pdf_main_invalid
    \/ pdf_main
    \/ html_main
    \/ pdf_create_document
    \/ pdf_build_story_raises
    \/ pdf_build_story
    \/ pdf_doc_build
    \/ html_validate_grip
    \/ html_validate_data
    \/ html_create_temp
    \/ html_run_grip
    \/ html_cleanup
    \/ exit_with_success
    \/ exit_with_error

SpecReport == InitReport /\ [][NextReport]_vars

\* A script runs on until it exits: no step of it waits for another process
\* of the model.
SpecReportFair == SpecReport /\ WF_vars(NextReport)

(***************************************************************************)
(* PDFGenerator called on a report by a caller that holds the parsed       *)
(* value, as the unit tests do: PDFGenerator(report_data, name).generate() *)
(***************************************************************************)
\* The length from which _create_simple_section writes a paragraph.
LONG_TEXT == 100

\* A list has at most MaxElements elements, a report at most MaxSections
\* sections.
MaxElements == 2
MaxSections == 3

Text(n) == [i \in 1..n |-> "x"]

K == <<"k">>
J == <<"j">>
V == JStr(<<"v">>)
SECTION_A == <<"a">>

ScalarPayloads == { V, JInt(7), JStr(Text(LONG_TEXT)), JStr(Text(LONG_TEXT + 1)) }

\* The elements of a list section: a text, mappings of the same keys in
\* both orders, a mapping of other keys, a mapping that holds a list, the
\* empty mapping.
ListElements ==
    { JStr(<<"x">>),
      JDict(<< <<K, V>>, <<J, V>> >>),
      JDict(<< <<J, V>>, <<K, V>> >>),
      JDict(<< <<K, V>> >>),
      JDict(<< <<K, JList(<< V >>)>>, <<J, V>> >>),
      JDict(<<>>) }

ListPayloads ==
    { JList(xs) : xs \in UNION { [1..n -> ListElements] : n \in 0..MaxElements } }

\* The shortest key whose header text is wider than the least label
\* column.
WIDE_KEY == Text((MIN_HEADER_WIDTH - HEADER_PADDING) \div HEADER_CHAR_WIDTH + 1)

\* A key that names a timestamp, a text that is an ISO-8601 instant, and a
\* text that holds the word "date" and is no instant.
TIMESTAMP == <<"t", "i", "m", "e", "s", "t", "a", "m", "p">>
ISO_TEXT == JStr(<<"2", "0", "2", "4", "-", "0", "1", "-", "1", "5", "T",
                   "1", "5", ":", "3", "0", ":", "0", "0", "Z">>)
DATED_TEXT == JStr(<<"u", "p", "d", "a", "t", "e">>)

\* The mapping sections: without a list, with lists of no, one and two
\* elements, with a wide key, with texts under a key that names a
\* timestamp and under another key, with a mapping as a value.
DictPayloads ==
    { JDict(<<>>),
      JDict(<< <<K, V>> >>),
      JDict(<< <<J, JInt(7)>>, <<K, V>> >>),
      JDict(<< <<K, JList(<<>>)>> >>),
      JDict(<< <<K, JList(<< V >>)>> >>),
      JDict(<< <<K, JList(<< V, JInt(7) >>)>> >>),
      JDict(<< <<K, V>>, <<J, JList(<< V, V >>)>> >>),
      JDict(<< <<K, JList(<<>>)>>, <<J, JList(<< V, V >>)>> >>),
      JDict(<< <<K, JList(<< V >>)>>, <<J, JList(<< JInt(7) >>)>> >>),
      JDict(<< <<WIDE_KEY, V>> >>),
      JDict(<< <<TIMESTAMP, ISO_TEXT>> >>),
      JDict(<< <<K, ISO_TEXT>>, <<TIMESTAMP, DATED_TEXT>> >>),
      JDict(<< <<K, DATED_TEXT>> >>),
      JDict(<< <<K, JDict(<< <<J, V>> >>)>> >>),
      JDict(<< <<K, JDict(<< <<J, V>> >>)>>, <<J, JList(<< V, V >>)>> >>) }

\* The quality_check sections: found_lines as a mapping of lists, of a
\* text, of a number; as the JSON text of a mapping; as a text that is no
\* JSON; as the JSON text of a list; and none.
QualityPayloads ==
    { JDict(<< <<FOUND_LINES,
                 JDict(<< << <<"p">>, JList(<< JStr(<<" ", "l">>), JStr(<<"m", "\n">>) >>) >> >>) >> >>),
      JDict(<< <<FOUND_LINES, JDict(<< << <<"p">>, JStr(<<"l">>) >> >>)>>, <<K, V>> >>),
      JDict(<< <<FOUND_LINES, JDict(<< << <<"p">>, JInt(7) >> >>)>> >>),
      JDict(<< <<FOUND_LINES, JStr(<<"{", "}">>)>> >>),
      JDict(<< <<FOUND_LINES, V>> >>),
      JDict(<< <<FOUND_LINES, JStr(<<"[", "1", "]">>)>>, <<K, V>> >>),
      JDict(<< <<K, V>> >>) }

SectionNames == { TITLE, SECTION_A, QUALITY_CHECK }

PayloadsOf(name) ==
    IF name = TITLE THEN { JStr(<<"T">>) }
    ELSE IF name = QUALITY_CHECK THEN QualityPayloads
    ELSE ScalarPayloads \cup ListPayloads \cup DictPayloads

\* The orders of distinct section names.
NameOrders ==
    { names \in UNION { [1..n -> SectionNames] : n \in 0..MaxSections } :
        \A i, j \in 1..Len(names) : names[i] = names[j] => i = j }

RECURSIVE ReportsNamed(_)
ReportsNamed(names) ==
    IF names = <<>> THEN { <<>> }
    ELSE { << <<Head(names), p>> >> \o rest :
             p \in PayloadsOf(Head(names)), rest \in ReportsNamed(Tail(names)) }

\* The report mappings of the model.
Reports == { JDict(items) : items \in UNION { ReportsNamed(names) : names \in NameOrders } }

InitStory ==
    /\ environ = << >>
    /\ entry = "PDFGenerator"
    /\ pc = "pdf_generate"
    /\ stdout = <<>>
    /\ stderr = <<>>
    /\ exit_code = -1
    /\ data = <<>>
    /\ output_filename = <<"o", "u", "t">>
    /\ data_type = ""
    /\ report_data \in Reports
    /\ generator = "PDFGenerator"
    /\ self_output_filename = <<"o", "u", "t">> \o PDF_EXTENSION
    /\ doc = ""
    /\ story = <<>>
    /\ temp_md_path = <<>>
    /\ raised = ""
    /\ message = ""
    /\ grip_available = FALSE
    /\ filename = <<>>
    /\ files = {}
    /\ temp_files = {}
    /\ grip_exports = <<>>
    /\ cleanup_calls = <<>>
    /\ ResolverIdle

\* PDFGenerator.generate: the steps of the method; what it returns or
\* raises is the caller's.
NextStory ==
    \/ pdf_create_document
    \/ pdf_build_story_raises
    \/ pdf_build_story
    \/ pdf_doc_build

SpecStory == InitStory /\ [][NextStory]_vars

(***************************************************************************)
(* Claims about the report scripts.                                        *)
(***************************************************************************)
\* The run went through scripts/generate_report.py.
Dispatcher == entry = "generate_report"

\* REPORT_DATA is given and is no JSON document.
MalformedPayload ==
    /\ "REPORT_DATA" \in DOMAIN environ
    /\ \A d \in JsonDocuments : d.text # environ["REPORT_DATA"]

\* The HTML generator did nothing: no grip export, no temporary file.
HtmlGeneratorIdle == grip_exports = <<>> /\ temp_files = {} /\ temp_md_path = <<>>

\* The PDF generator did nothing: no document, no story.
PdfGeneratorIdle == doc = "" /\ story = <<>>

SuccessLines == { i \in 1..Len(stdout) : stdout[i][1] = "Success" }

(***************************************************************************)
(* C8: a successful run of the report dispatcher leaves exactly one output *)
(* file, named by the output base filename and the extension of the type   *)
(* tag: base.pdf for json, and the HTML generator did not run; base.html   *)
(* for markdown, and the PDF generator did not run; generate() returned    *)
(* that name.                                                              *)
(***************************************************************************)
C8_OneOutputFile ==
    (Dispatcher /\ pc = "exited" /\ exit_code = 0)
    => /\ files = {filename}
       /\ data_type \in {"json", "markdown"}
       /\ data_type = "json" =>
              /\ filename = output_filename \o PDF_EXTENSION
              /\ generator = "PDFGenerator"
              /\ HtmlGeneratorIdle
       /\ data_type = "markdown" =>
              /\ filename = output_filename \o HTML_EXTENSION
              /\ generator = "HTMLGenerator"
              /\ PdfGeneratorIdle

(***************************************************************************)
(* C9: with a DATA_TYPE that is neither json nor markdown the report       *)
(* dispatcher goes from reading its inputs to the error exit only: exit    *)
(* code 1 and one message on standard error, no generator constructed or   *)
(* run, no output file, no success line.                                   *)
(***************************************************************************)
C9_UnsupportedTypeIsFatal ==
    (/\ Dispatcher
     /\ "DATA_TYPE" \in DOMAIN environ
     /\ environ["DATA_TYPE"] \notin {"json", "markdown"})
    => /\ pc \in {"main", "dispatch", "exited"}
       /\ generator = ""
       /\ PdfGeneratorIdle
       /\ HtmlGeneratorIdle
       /\ files = {}
       /\ SuccessLines = {}
       /\ exit_code \in {-1, 1}
       /\ pc = "exited" =>
              /\ exit_code = 1
              /\ Len(stderr) = 1
              /\ stderr[1][1] = "Error"

\* The dispatcher ended on the type tag xml.
C9_Witness ==
    /\ Dispatcher
    /\ "DATA_TYPE" \in DOMAIN environ
    /\ environ["DATA_TYPE"] = "xml"
    /\ pc = "exited"
    /\ exit_code = 1
    /\ stderr = << <<"Error", "Unsupported data type", "xml">> >>

(***************************************************************************)
(* C10: with a REPORT_DATA that is no JSON document, the PDF path (the     *)
(* dispatcher on the type json, and the PDF script) never exits with 0,    *)
(* ends with exit code 1, and creates no document and no file: the run     *)
(* stops at the parse, before a generator exists.                          *)
(***************************************************************************)
C10_MalformedJsonIsFatal ==
    (/\ MalformedPayload
     /\ \/ Dispatcher /\ environ_get("DATA_TYPE", "json") = "json"
        \/ entry = "pdf_generator")
    => /\ exit_code \in {-1, 1}
       /\ pc = "exited" => exit_code = 1
       /\ generator = ""
       /\ PdfGeneratorIdle
       /\ files = {}

\* The PDF script ended on the malformed payload of the tests.
C10_Witness ==
    /\ entry = "pdf_generator"
    /\ MalformedPayload
    /\ environ["REPORT_DATA"] = <<"{", "i", "n", "v", "a", "l", "i", "d", " ", "j", "s", "o", "n", "}">>
    /\ pc = "exited"
    /\ exit_code = 1

\* The HTML generator was constructed on this content and has not returned.
HtmlStopped == pc \in {"except", "exited"}

(***************************************************************************)
(* C11, as stated: with an empty or whitespace-only Markdown content,      *)
(* HTMLGenerator.generate fails with ValueError, no grip export is run     *)
(* and no output file is written.                                          *)
(***************************************************************************)
C11_BlankContentIsValueError ==
    (generator = "HTMLGenerator" /\ IsBlank(data))
    => /\ pc \in {"html_generate", "html_validate_data", "except", "exited"}
       /\ grip_exports = <<>>
       /\ files = {}
       /\ HtmlStopped => raised = "ValueError"

(***************************************************************************)
(* C11, amended: with an empty or whitespace-only Markdown content,        *)
(* HTMLGenerator.generate fails, no grip export is run and no output file  *)
(* is written; the failure is the ValueError of the validation when grip   *)
(* is available, and the RuntimeError of the grip check, which comes       *)
(* first, when it is not.                                                  *)
(***************************************************************************)
C11_BlankContentFails ==
    (generator = "HTMLGenerator" /\ IsBlank(data))
    => /\ pc \in {"html_generate", "html_validate_data", "except", "exited"}
       /\ grip_exports = <<>>
       /\ files = {}
       /\ temp_files = {}
       /\ exit_code \in {-1, 1}
       /\ HtmlStopped =>
              IF grip_available
              THEN raised = "ValueError" /\ message = "No markdown content provided"
              ELSE raised = "RuntimeError" /\ message = GRIP_NOT_INSTALLED

\* The HTML script ended on a whitespace-only content, grip being there.
C11_Witness ==
    /\ entry = "html_generator"
    /\ generator = "HTMLGenerator"
    /\ data = <<" ", "\n">>
    /\ grip_available
    /\ raised = "ValueError"
    /\ pc = "exited"
    /\ exit_code = 1

(***************************************************************************)
(* C12: when grip is not available, HTMLGenerator.generate fails with the  *)
(* RuntimeError "Grip is not installed or not available in PATH"; no       *)
(* temporary Markdown file was created and no grip export attempted.       *)
(***************************************************************************)
C12_GripMissingIsRuntimeError ==
    (generator = "HTMLGenerator" /\ ~ grip_available)
    => /\ pc \in {"html_generate", "except", "exited"}
       /\ temp_files = {}
       /\ temp_md_path = <<>>
       /\ grip_exports = <<>>
       /\ files = {}
       /\ exit_code \in {-1, 1}
       /\ HtmlStopped =>
              /\ raised = "RuntimeError"
              /\ message = GRIP_NOT_INSTALLED

\* generate raised on a content that is not blank, grip missing.
C12_Witness ==
    /\ generator = "HTMLGenerator"
    /\ ~ grip_available
    /\ data = <<"#", " ", "T">>
    /\ pc = "except"
    /\ raised = "RuntimeError"
    /\ message = GRIP_NOT_INSTALLED

(***************************************************************************)
(* C13: every run of the report dispatcher ends, with exit code 0 or 1:    *)
(* 0 exactly when the generator returned a file name, in which case no     *)
(* exception is pending and the success line was printed; 1 in every       *)
(* other case, and then no success line was printed.                       *)
(***************************************************************************)
C13_ExitCodeTellsOutcome ==
    /\ [](Dispatcher =>
            /\ SuccessLines # {} => exit_code = 0
            /\ pc = "exited" =>
                   /\ exit_code \in {0, 1}
                   /\ exit_code = 0 <=> filename # <<>>
                   /\ exit_code = 0 <=> SuccessLines # {}
                   /\ exit_code = 0 => raised = ""
                   /\ exit_code = 1 => Len(stderr) = 1 /\ stderr[1][1] = "Error")
    /\ (Dispatcher ~> (pc = "exited"))

\* A dispatcher run ended after a generator failure.
C13_Witness ==
    /\ Dispatcher
    /\ pc = "exited"
    /\ generator = "PDFGenerator"
    /\ raised = "Exception"
    /\ filename = <<>>
    /\ exit_code = 1

(***************************************************************************)
(* Claims about PDFGenerator.                                              *)
(***************************************************************************)
\* The log lines that precede the calls of doc.build.
BuildLines == { i \in 1..Len(stdout) : stdout[i][2] = "Building PDF document..." }

\* _build_story raised: the document exists, no story was returned.
StoryFailed == doc = "created" /\ story = <<>> /\ raised # ""

\* The story runs from the title paragraph to the footer paragraph.
WholeStory ==
    /\ Len(story) >= 7
    /\ story[1].kind = "Paragraph" /\ story[1].style = "title"
    /\ story[Len(story)].kind = "Paragraph" /\ story[Len(story)].style = "footer"

(***************************************************************************)
(* C14: in PDFGenerator.generate doc.build is called on a whole story      *)
(* only, title to footer; when building the story raises, the exception    *)
(* goes to the caller, doc.build was never called and no file was          *)
(* written.                                                                *)
(***************************************************************************)
C14_StoryBeforeBuild ==
    /\ StoryFailed =>
           /\ pc = "except"
           /\ BuildLines = {}
           /\ files = {}
           /\ filename = <<>>
    /\ (pc = "pdf_doc_build" \/ BuildLines # {} \/ doc = "built" \/ files # {}) =>
           /\ WholeStory
           /\ ~ StoryFailed

\* The second section raised after the first was built.
C14_Witness ==
    /\ StoryFailed
    /\ raised = "AttributeError"
    /\ Len(report_data.value) = 2
    /\ report_data.value[1] = <<SECTION_A, JDict(<< <<K, V>> >>)>>
    /\ report_data.value[2][1] = QUALITY_CHECK

\* The sections of the report that are mappings, the title key left out.
DictSections ==
    { i \in 1..Len(report_data.value) :
        /\ report_data.value[i][1] # TITLE
        /\ report_data.value[i][2].type = "dict" }

\* Some value of the mapping d is a list of more than one element.
HasLongList(d) ==
    \E i \in 1..Len(d.value) :
        d.value[i][2].type = "list" /\ Len(d.value[i][2].value) > 1

\* The section heading that was written for a section name.
HeadingText(name) ==
    IF name = SECTION_A THEN <<"A">>
    ELSE <<"Q", "u", "a", "l", "i", "t", "y", " ", "C", "h", "e", "c", "k">>

\* The positions in the story of the heading of the section of that name.
Headings(name) ==
    { i \in 1..Len(story) :
        /\ story[i].kind = "Paragraph"
        /\ story[i].style = "heading"
        /\ story[i].text = HeadingText(name) }

\* The block that follows the heading of the section.
BlockOf(name) == story[(CHOOSE i \in Headings(name) : TRUE) + 1]

\* The label/value table of the mapping d: one row per key, in the order
\* of d.
IsLabelValueTable(table, d) ==
    /\ table.kind = "DictTable"
    /\ Len(table.table_data) = Len(d.value)
    /\ \A j \in 1..Len(d.value) : table.table_data[j][1] = d.value[j][1]

(***************************************************************************)
(* C15, as stated: in a story that was built, every mapping section with   *)
(* a key, whatever its name, has the merged-cell table if some value of    *)
(* it is a list of more than one element, and the label/value table, one   *)
(* row per key in insertion order, if not.                                 *)
(***************************************************************************)
C15_MergedIffLongList ==
    story # <<>> =>
        \A i \in DictSections :
            LET name == report_data.value[i][1]
                d == report_data.value[i][2]
            IN  \/ d.value = <<>>
                \/ /\ Cardinality(Headings(name)) = 1
                   /\ IF HasLongList(d)
                      THEN BlockOf(name).kind = "MergedTable"
                      ELSE IsLabelValueTable(BlockOf(name), d)

\* The section is quality_check and has the key found_lines.
IsFoundLinesSection(name, d) ==
    name = QUALITY_CHECK /\ \E j \in 1..Len(d.value) : d.value[j][1] = FOUND_LINES

(***************************************************************************)
(* C15, amended: a quality_check section that has a found_lines key        *)
(* always uses the merged-cell table (and is left out when that table has  *)
(* no row); an empty mapping is left out; every other mapping section      *)
(* has the merged-cell table if some value of it is a list of more than    *)
(* one element, and the label/value table, one row per key in insertion    *)
(* order, if not.                                                          *)
(***************************************************************************)
C15_MergedTableChoice ==
    story # <<>> =>
        \A i \in DictSections :
            LET name == report_data.value[i][1]
                d == report_data.value[i][2]
            IN  IF IsFoundLinesSection(name, d)
                THEN \/ Headings(name) = {}
                     \/ /\ Cardinality(Headings(name)) = 1
                        /\ BlockOf(name).kind = "MergedTable"
                ELSE IF d.value = <<>>
                THEN Headings(name) = {}
                ELSE /\ Cardinality(Headings(name)) = 1
                     /\ IF HasLongList(d)
                        THEN BlockOf(name).kind = "MergedTable"
                        ELSE IsLabelValueTable(BlockOf(name), d)

\* A mapping with a list of one element has the label/value table, and
\* the found_lines section, without a list, the merged-cell table.
C15_Witness ==
    /\ story # <<>>
    /\ Len(report_data.value) = 2
    /\ report_data.value[1] = <<SECTION_A, JDict(<< <<K, JList(<< V >>)>>, <<J, JList(<< JInt(7) >>)>> >>)>>
    /\ report_data.value[2] = <<QUALITY_CHECK, JDict(<< <<FOUND_LINES, V>> >>)>>
    /\ BlockOf(SECTION_A).kind = "DictTable"
    /\ BlockOf(QUALITY_CHECK).kind = "MergedTable"

\* The sections of the report that are lists with an element.
ListSections ==
    { i \in 1..Len(report_data.value) :
        /\ report_data.value[i][1] # TITLE
        /\ report_data.value[i][2].type = "list"
        /\ report_data.value[i][2].value # <<>> }

KeySet(d) == { d.value[j][1] : j \in 1..Len(d.value) }

\* Every element of the list l is a mapping, and all have the same keys.
IsUniform(l) ==
    /\ \A i \in 1..Len(l.value) : l.value[i].type = "dict"
    /\ \A i, j \in 1..Len(l.value) : KeySet(l.value[i]) = KeySet(l.value[j])

\* The enumerated table of the list l: one row per element, labelled with
\* the section heading and the index from 1.
IsEnumeratedTable(table, name, l) ==
    /\ table.kind = "ListTable"
    /\ Len(table.table_data) = Len(l.value)
    /\ \A j \in 1..Len(l.value) :
           table.table_data[j] = <<HeadingText(name), j, py_str(l.value[j])>>

\* The grid table of the list l: the keys of the first element head the
\* columns, one row per element.
IsGridTable(table, l) ==
    /\ table.kind = "TraditionalTable"
    /\ table.header = [j \in 1..Len(l.value[1].value) |-> l.value[1].value[j][1]]
    /\ Len(table.table_data) = Len(l.value)
    /\ \A i \in 1..Len(l.value) :
           Len(table.table_data[i]) = Len(l.value[1].value)

(***************************************************************************)
(* C16: in a story that was built, every list section with an element has  *)
(* the grid table if and only if every element is a mapping and all        *)
(* elements have the same set of keys, in whatever order, and has the      *)
(* enumerated table, one row per element labelled with the section         *)
(* heading and the index from 1, if not.  And the one failure of the grid  *)
(* table, the division by the number of columns, occurs only where the     *)
(* grid table was the choice.                                              *)
(***************************************************************************)
C16_GridIffUniform ==
    /\ story # <<>> =>
           \A i \in ListSections :
               LET name == report_data.value[i][1]
                   l == report_data.value[i][2]
               IN  /\ Cardinality(Headings(name)) = 1
                   /\ IsUniform(l) <=> BlockOf(name).kind = "TraditionalTable"
                   /\ IsUniform(l) => IsGridTable(BlockOf(name), l)
                   /\ ~ IsUniform(l) => IsEnumeratedTable(BlockOf(name), name, l)
    /\ raised = "ZeroDivisionError" =>
           \E i \in ListSections : IsUniform(report_data.value[i][2])

\* The elements have the same keys in two orders: the grid table.
C16_Witness ==
    /\ story # <<>>
    /\ Len(report_data.value) = 1
    /\ report_data.value[1] =
           <<SECTION_A, JList(<< JDict(<< <<K, V>>, <<J, V>> >>),
                                 JDict(<< <<J, V>>, <<K, V>> >>) >>)>>
    /\ BlockOf(SECTION_A).kind = "TraditionalTable"

\* The sections of the report that are a text or a number.
ScalarSections ==
    { i \in 1..Len(report_data.value) :
        /\ report_data.value[i][1] # TITLE
        /\ report_data.value[i][2].type \in {"str", "int"} }

\* The text of a scalar of the model: a text is itself, the number is 7.
Stringified(v) == IF v.type = "str" THEN v.value ELSE <<"7">>

\* The blocks from the heading of the section to the next heading or the
\* footer.
SectionEnd(name) ==
    LET h == CHOOSE i \in Headings(name) : TRUE
    IN  CHOOSE e \in h..Len(story) :
            /\ \A i \in (h + 1)..e : ~ (story[i].kind = "Paragraph" /\ story[i].style = "heading")
            /\ \/ story[e + 1].kind = "Paragraph" /\ story[e + 1].style = "heading"
               \/ story[e + 1] = Spacer /\ story[e + 2].kind = "FooterDivider"

(***************************************************************************)
(* C17: in a story that was built, a scalar section is its heading, one    *)
(* block and a spacer; the block is the value box when the text of the     *)
(* value has at most 100 characters and a plain paragraph when it has      *)
(* more: a box at 100 characters, a paragraph at 101.                      *)
(***************************************************************************)
C17_BoxUpTo100 ==
    story # <<>> =>
        \A i \in ScalarSections :
            LET name == report_data.value[i][1]
                text == Stringified(report_data.value[i][2])
                h == CHOOSE k \in Headings(name) : TRUE
            IN  /\ Cardinality(Headings(name)) = 1
                /\ SectionEnd(name) = h + 2
                /\ story[h + 2] = Spacer
                /\ Len(text) <= 100 => story[h + 1] = [kind |-> "ValueBox", text |-> text]
                /\ Len(text) > 100 => story[h + 1] = Paragraph(text, "normal")

\* A text of exactly 100 characters is in a box.
C17_Witness ==
    /\ story # <<>>
    /\ \E i \in ScalarSections :
           /\ report_data.value[i][2].type = "str"
           /\ Len(report_data.value[i][2].value) = 100
           /\ BlockOf(report_data.value[i][1]).kind = "ValueBox"
           /\ Len(BlockOf(report_data.value[i][1]).text) = 100

\* The positions of the section headings in the story.
AllHeadings ==
    { i \in 1..Len(story) : story[i].kind = "Paragraph" /\ story[i].style = "heading" }

\* The value of the title key, 'Report' without one.
TitleOf(d) ==
    IF \E i \in 1..Len(d.value) : d.value[i][1] = TITLE
    THEN d.value[CHOOSE i \in 1..Len(d.value) : d.value[i][1] = TITLE][2]
    ELSE JStr(<<"R", "e", "p", "o", "r", "t">>)

(***************************************************************************)
(* C18: a story that was built starts with the title paragraph (the value  *)
(* of the title key, 'Report' without one), a spacer, the title divider    *)
(* and a spacer, and ends with a spacer, the footer divider and the        *)
(* footer paragraph; between them every heading is the heading of a        *)
(* section other than title, no section has two, and the headings stand    *)
(* in the order of the sections in the report, wherever the title key is.  *)
(***************************************************************************)
C18_TitleSectionsFooter ==
    story # <<>> =>
        /\ story[1] = Paragraph(TitleOf(report_data), "title")
        /\ story[2] = Spacer
        /\ story[3].kind = "TitleDivider"
        /\ story[4] = Spacer
        /\ story[Len(story) - 2] = Spacer
        /\ story[Len(story) - 1].kind = "FooterDivider"
        /\ story[Len(story)].kind = "Paragraph" /\ story[Len(story)].style = "footer"
        /\ \A h \in AllHeadings :
               /\ 4 < h /\ h < Len(story) - 2
               /\ \E i \in 1..Len(report_data.value) :
                      /\ report_data.value[i][1] # TITLE
                      /\ h \in Headings(report_data.value[i][1])
        /\ \A i, j \in 1..Len(report_data.value) :
               LET first == report_data.value[i][1]
                   second == report_data.value[j][1]
               IN  (i < j /\ first # TITLE /\ second # TITLE) =>
                       /\ Cardinality(Headings(first)) <= 1
                       /\ Cardinality(Headings(second)) <= 1
                       /\ \A h \in Headings(first), k \in Headings(second) : h < k

\* The title key stands between two sections that were both written.
C18_Witness ==
    /\ story # <<>>
    /\ Len(report_data.value) = 3
    /\ report_data.value[1][1] = QUALITY_CHECK
    /\ report_data.value[2] = <<TITLE, JStr(<<"T">>)>>
    /\ report_data.value[3][1] = SECTION_A
    /\ story[1].text = JStr(<<"T">>)
    /\ Cardinality(AllHeadings) = 2
    /\ \A h \in Headings(QUALITY_CHECK), k \in Headings(SECTION_A) : h < k

\* The positions in the story of the tables of the mapping sections.
MappingTables ==
    { i \in 1..Len(story) : story[i].kind \in {"DictTable", "MergedTable"} }

(***************************************************************************)
(* C19: in a story that was built, all tables of mapping sections have     *)
(* the same label column width and the same value column width, the total  *)
(* width less the label width, whatever the keys of the sections.          *)
(***************************************************************************)
C19_SameLabelWidth ==
    story # <<>> =>
        \A i, j \in MappingTables :
            /\ story[i].col_widths[1] = story[j].col_widths[1]
            /\ story[i].col_widths[2] = story[j].col_widths[2]
            /\ story[i].col_widths[2] = TOTAL_WIDTH - story[i].col_widths[1]

\* The key holds "time", "date" or "timestamp", in whatever case.
NamesTimestamp(key) ==
    \E keyword \in TIMESTAMP_KEYWORDS : contains(lower_text(key), keyword)

(***************************************************************************)
(* C20: in a story that was built, a text under a key of a label/value     *)
(* table is shown as a timestamp, read as ISO-8601 and written in          *)
(* US/Eastern, if and only if the key holds "time", "date" or "timestamp"  *)
(* in whatever case; a text under any other key is shown as it is.         *)
(***************************************************************************)
C20_TimestampByKey ==
    story # <<>> =>
        \A i \in DictSections :
            (/\ Headings(report_data.value[i][1]) # {}
             /\ BlockOf(report_data.value[i][1]).kind = "DictTable") =>
                \A j \in 1..Len(report_data.value[i][2].value) :
                    report_data.value[i][2].value[j][2].type = "str" =>
                        BlockOf(report_data.value[i][1]).table_data[j][2] =
                            IF NamesTimestamp(report_data.value[i][2].value[j][1])
                            THEN format_timestamp(report_data.value[i][2].value[j][2].value)
                            ELSE report_data.value[i][2].value[j][2].value

\* The text is sent to format_timestamp and is no ISO-8601 instant.
IsUnparsedTimestamp(v) ==
    /\ v.type = "str"
    /\ \E keyword \in TIMESTAMP_KEYWORDS : contains(lower_text(v.value), keyword)
    /\ ~ \E t \in IsoTimestamps : t.text = v.value

\* The warning of format_timestamp for the text is in the log.
Warned(text) ==
    \E i \in 1..Len(stdout) :
        stdout[i] = <<"[WARNING]", "Failed to format timestamp", text>>

\* The sections whose table can raise: a merged-cell table, a grid table.
RaisingSections ==
    { i \in 1..Len(report_data.value) :
        /\ report_data.value[i][1] # TITLE
        /\ \/ /\ report_data.value[i][2].type = "dict"
              /\ \/ /\ report_data.value[i][1] = QUALITY_CHECK
                    /\ dict_has(report_data.value[i][2], FOUND_LINES)
                 \/ HasLongList(report_data.value[i][2])
           \/ report_data.value[i][2].type = "list" }

(***************************************************************************)
(* C21: in a story that was built, every text that format_value sent to    *)
(* format_timestamp and that is no ISO-8601 instant is shown as it is and  *)
(* has its warning in the log; and when building the story raised, some    *)
(* section has a merged-cell or a list table: formatting a text never      *)
(* ends a report.                                                          *)
(***************************************************************************)
C21_TimestampBestEffort ==
    /\ story # <<>> =>
           \A i \in DictSections :
               (/\ Headings(report_data.value[i][1]) # {}
                /\ BlockOf(report_data.value[i][1]).kind = "DictTable") =>
                   \A j \in 1..Len(report_data.value[i][2].value) :
                       IsUnparsedTimestamp(report_data.value[i][2].value[j][2]) =>
                           /\ BlockOf(report_data.value[i][1]).table_data[j][2] =
                                  report_data.value[i][2].value[j][2].value
                           /\ Warned(report_data.value[i][2].value[j][2].value)
    /\ StoryFailed => RaisingSections # {}

\* A story with the text "update" in a label/value table, its warning in
\* the log.
C21_Witness ==
    /\ story # <<>>
    /\ \E i \in DictSections :
           /\ Headings(report_data.value[i][1]) # {}
           /\ BlockOf(report_data.value[i][1]).kind = "DictTable"
           /\ \E j \in 1..Len(report_data.value[i][2].value) :
                  /\ IsUnparsedTimestamp(report_data.value[i][2].value[j][2])
                  /\ BlockOf(report_data.value[i][1]).table_data[j][2] = DATED_TEXT.value
    /\ Warned(DATED_TEXT.value)

\* What the claim has a leaf value shown as: indented JSON for a mapping or
\* a list, str() for any other value.
Displayed(v) ==
    IF v.type \in {"dict", "list"} THEN json_dumps(v, 0) ELSE py_str(v)

\* The leaf values of the rows of a merged-cell table without found_lines:
\* the elements of a list, any other value itself, key after key.
RECURSIVE Leaves(_)
Leaves(items) ==
    IF items = <<>> THEN <<>>
    ELSE (IF Head(items)[2].type = "list" THEN Head(items)[2].value
          ELSE << Head(items)[2] >>)
         \o Leaves(Tail(items))

(***************************************************************************)
(* C22: in a story that was built, every value cell of every table, the    *)
(* label/value, the merged-cell (without found_lines), the grid and the    *)
(* enumerated table alike, shows a mapping or a list as indented JSON      *)
(* text and any other value as str() gives it.                             *)
(***************************************************************************)
C22_NestedShownAsJson ==
    story # <<>> =>
        /\ \A i \in DictSections :
               Headings(report_data.value[i][1]) # {} =>
                   /\ BlockOf(report_data.value[i][1]).kind = "DictTable" =>
                          \A j \in 1..Len(report_data.value[i][2].value) :
                              BlockOf(report_data.value[i][1]).table_data[j][2] =
                                  Displayed(report_data.value[i][2].value[j][2])
                   /\ (/\ BlockOf(report_data.value[i][1]).kind = "MergedTable"
                       /\ ~ dict_has(report_data.value[i][2], FOUND_LINES)) =>
                          \A j \in 1..Len(BlockOf(report_data.value[i][1]).table_data) :
                              BlockOf(report_data.value[i][1]).table_data[j][2] =
                                  Displayed(Leaves(report_data.value[i][2].value)[j])
        /\ \A i \in ListSections :
               Headings(report_data.value[i][1]) # {} =>
                   /\ BlockOf(report_data.value[i][1]).kind = "ListTable" =>
                          \A j \in 1..Len(report_data.value[i][2].value) :
                              BlockOf(report_data.value[i][1]).table_data[j][3] =
                                  Displayed(report_data.value[i][2].value[j])
                   /\ BlockOf(report_data.value[i][1]).kind = "TraditionalTable" =>
                          \A j \in 1..Len(report_data.value[i][2].value) :
                              \A k \in 1..Len(report_data.value[i][2].value[1].value) :
                                  BlockOf(report_data.value[i][1]).table_data[j][k] =
                                      Displayed(dict_get(report_data.value[i][2].value[j],
                                                         report_data.value[i][2].value[1].value[k][1],
                                                         JStr(<<>>)))

\* The mapping sections whose found_lines is a text that is not the JSON
\* text of a mapping.
RawFoundLines ==
    { i \in DictSections :
        /\ dict_has(report_data.value[i][2], FOUND_LINES)
        /\ dict_get(report_data.value[i][2], FOUND_LINES, JNone).type = "str"
        /\ json_loads(dict_get(report_data.value[i][2], FOUND_LINES, JNone).value).value.type
               # "dict" }

\* The rows of a table under the label key.
RowsOf(table, key) ==
    { j \in 1..Len(table.table_data) : table.table_data[j][1] = key }

(***************************************************************************)
(* C23: a quality_check section whose found_lines is a text that is no     *)
(* JSON, or the JSON text of something other than a mapping, has in a      *)
(* story that was built the merged-cell table with exactly one row for     *)
(* found_lines, showing the text as it is; and when building the story     *)
(* raised, another section has a merged-cell or a list table.              *)
(***************************************************************************)
C23_RawFoundLinesIsOneRow ==
    \A i \in RawFoundLines :
        report_data.value[i][1] = QUALITY_CHECK =>
            /\ story # <<>> =>
                   /\ Headings(QUALITY_CHECK) # {}
                   /\ BlockOf(QUALITY_CHECK).kind = "MergedTable"
                   /\ Cardinality(RowsOf(BlockOf(QUALITY_CHECK), FOUND_LINES)) = 1
                   /\ \A j \in RowsOf(BlockOf(QUALITY_CHECK), FOUND_LINES) :
                          BlockOf(QUALITY_CHECK).table_data[j][2] =
                              dict_get(report_data.value[i][2], FOUND_LINES, JNone).value
            /\ StoryFailed => RaisingSections \ {i} # {}

\* A story with the one row of found_lines = "[1]" and the row of another
\* key after it.
C23_Witness ==
    /\ story # <<>>
    /\ \E i \in RawFoundLines :
           /\ report_data.value[i][1] = QUALITY_CHECK
           /\ json_loads(dict_get(report_data.value[i][2], FOUND_LINES, JNone).value).raised = ""
           /\ Len(BlockOf(QUALITY_CHECK).table_data) = 2
           /\ BlockOf(QUALITY_CHECK).table_data[1] = <<FOUND_LINES, <<"[", "1", "]">> >>

\* The merged-cell tables of the story.
MergedTables == { i \in 1..Len(story) : story[i].kind = "MergedTable" }

\* The ranges of the table lie end to end from row 0 to the last row, and
\* every row of a range carries the label of its key.
RangesPartition(table) ==
    /\ table.merge_ranges # <<>>
    /\ table.merge_ranges[1][2] = 0
    /\ table.merge_ranges[Len(table.merge_ranges)][3] = Len(table.table_data) - 1
    /\ \A r \in 1..Len(table.merge_ranges) :
           /\ table.merge_ranges[r][2] <= table.merge_ranges[r][3]
           /\ r > 1 => table.merge_ranges[r][2] = table.merge_ranges[r - 1][3] + 1
           /\ \A j \in table.merge_ranges[r][2]..table.merge_ranges[r][3] :
                  table.table_data[j + 1][1] = table.merge_ranges[r][1]
           /\ \A q \in 1..Len(table.merge_ranges) :
                  table.merge_ranges[q][1] = table.merge_ranges[r][1] => q = r

\* A SPAN command for every range of more than one row, and no other.
SpansOfRanges(table) ==
    /\ \A r \in 1..Len(table.merge_ranges) :
           table.merge_ranges[r][3] > table.merge_ranges[r][2] <=>
               \E c \in 1..Len(table.style) :
                   table.style[c] = << "SPAN", <<0, table.merge_ranges[r][2]>>,
                                       <<0, table.merge_ranges[r][3]>> >>
    /\ \A c \in 1..Len(table.style) :
           \E r \in 1..Len(table.merge_ranges) :
               table.style[c] = << "SPAN", <<0, table.merge_ranges[r][2]>>,
                                   <<0, table.merge_ranges[r][3]>> >>

(***************************************************************************)
(* C24: in every merged-cell table of a story, current_row is the number   *)
(* of rows, the ranges of the keys lie end to end in insertion order from  *)
(* the first row to the last, one range per key that has a value, each     *)
(* covering the rows labelled with its key, and the table has a SPAN       *)
(* command for a key exactly when its range is of more than one row.       *)
(***************************************************************************)
C24_RangesPartitionRows ==
    \A i \in MergedTables :
        /\ story[i].current_row = Len(story[i].table_data)
        /\ RangesPartition(story[i])
        /\ SpansOfRanges(story[i])

\* A merged-cell table with a range of one row and a range of two rows.
C24_Witness ==
    \E i \in MergedTables :
        /\ Len(story[i].merge_ranges) = 2
        /\ story[i].merge_ranges[1][3] = story[i].merge_ranges[1][2]
        /\ story[i].merge_ranges[2][3] = story[i].merge_ranges[2][2] + 1
        /\ Len(story[i].style) = 1

(***************************************************************************)
(* C29: in a story that was built, every key of a mapping section that     *)
(* has the merged-cell table labels at least one row of the table.         *)
(***************************************************************************)
C29_NoKeyDropped ==
    story # <<>> =>
        \A i \in DictSections :
            (/\ Headings(report_data.value[i][1]) # {}
             /\ BlockOf(report_data.value[i][1]).kind = "MergedTable") =>
                \A j \in 1..Len(report_data.value[i][2].value) :
                    RowsOf(BlockOf(report_data.value[i][1]),
                           report_data.value[i][2].value[j][1]) # {}

(***************************************************************************)
(* C28: once the story was built or building it raised, every list         *)
(* section whose elements are mappings of one set of keys has at least     *)
(* one column, and the division of the total width by the number of        *)
(* columns never raised.                                                   *)
(***************************************************************************)
C28_GridHasColumn ==
    (story # <<>> \/ StoryFailed) =>
        /\ \A i \in ListSections :
               IsUniform(report_data.value[i][2]) =>
                   Len(report_data.value[i][2].value[1].value) >= 1
        /\ raised # "ZeroDivisionError"

C26_ExportPathIsReturnedPath ==
    (generator = "HTMLGenerator" /\ filename # <<>>) =>
        /\ grip_exports # <<>>
        /\ grip_exports[Len(grip_exports)] = filename

\* The warning of cleanup_temp_file for the path is in the log.
CouldNotRemove(path) ==
    \E i \in 1..Len(stdout) :
        stdout[i] = <<"[WARNING]", "Could not remove temporary file", path>>

\* _generate_html_with_grip has returned or raised.
HtmlGenerated ==
    /\ generator = "HTMLGenerator"
    /\ pc \in {"success", "except", "exited"}

(***************************************************************************)
(* C27: once _generate_html_with_grip has returned or raised, the          *)
(* temporary file create_temp_markdown_file returned was handed to         *)
(* cleanup_temp_file exactly once, and is gone unless the removal failed   *)
(* and was logged, after a grip command that succeeded or failed alike; a  *)
(* failed grip command has surfaced as RuntimeError; and when no           *)
(* temporary file was returned, cleanup_temp_file was never called.        *)
(***************************************************************************)
C27_TempFileCleanedOnce ==
    /\ (HtmlGenerated /\ temp_md_path # <<>>) =>
           /\ cleanup_calls = << temp_md_path >>
           /\ temp_md_path \notin temp_files \/ CouldNotRemove(temp_md_path)
           /\ filename = <<>> => raised = "RuntimeError"
    /\ temp_md_path = <<>> => cleanup_calls = <<>>
    /\ pc = "html_run_grip" => cleanup_calls = <<>>

\* The grip command failed and the temporary file is gone.
C27_Witness ==
    /\ HtmlGenerated
    /\ grip_exports # <<>>
    /\ raised = "RuntimeError"
    /\ cleanup_calls = << TEMP_MD >>
    /\ temp_files = {}

\* REPORT_DATA is a JSON document that is no object.
NonObjectPayload ==
    /\ "REPORT_DATA" \in DOMAIN environ
    /\ \E d \in JsonDocuments :
           d.text = environ["REPORT_DATA"] /\ d.value.type # "dict"

(***************************************************************************)
(* C30: in a run of the report dispatcher on json data whose REPORT_DATA   *)
(* is a JSON list, text, number or null, no file is ever written and       *)
(* doc.build is never called; the exception is raised while the story is   *)
(* built, after the document template was made; and the run ends with the  *)
(* error line of exit_with_error and exit code 1.                          *)
(***************************************************************************)
C30_NonObjectIsFatal ==
    (/\ Dispatcher
     /\ environ_get("DATA_TYPE", "json") = "json"
     /\ NonObjectPayload)
    => /\ files = {}
       /\ filename = <<>>
       /\ BuildLines = {}
       /\ doc # "built"
       /\ raised # "" => (raised = "AttributeError" /\ doc = "created" /\ story = <<>>)
       /\ pc = "exited" =>
              /\ exit_code = 1
              /\ raised = "AttributeError"
              /\ stderr = << <<"Error", "Error generating", message>> >>
              /\ SuccessLines = {}

\* The dispatcher ended on the payload null.
C30_Witness ==
    /\ Dispatcher
    /\ environ_get("DATA_TYPE", "json") = "json"
    /\ NonObjectPayload
    /\ environ["REPORT_DATA"] = <<"n", "u", "l", "l">>
    /\ pc = "exited"
    /\ exit_code = 1
    /\ doc = "created"

====
